---------------------------- MODULE Spec2Model ----------------------------
(***************************************************************************)
(* Model of the pelican_kicad_embed plugin (src/pelican_kicad_embed).      *)
(*                                                                         *)
(* Strings are sequences of one-character strings, so that substring       *)
(* search, replacement, slicing and the detector's regular expression are  *)
(* computed character by character, as Python computes them.  Positions    *)
(* passed to and returned by Find are 0-based, as in Python.               *)
(*                                                                         *)
(* A document (pelican Content object) is a record of the attributes       *)
(* the plugin reads or writes, and of extra_js, which the theme reads.     *)
(* An attribute that may be missing from the object has the value "absent".*)
(***************************************************************************)
EXTENDS Integers, Sequences, FiniteSets, TLC

VARIABLES
    docs,               \* document id -> Content object
    settings,           \* pelican_object.settings, the operator's configuration
    _pelican_settings,  \* module global, None until add_jinja2_globals runs
    last,               \* the call that produced this state, with the
                        \* document as it was before the call
    source,             \* what the author wrote, as handed to a renderer
    output,             \* renderer name -> the value its call returned
    files               \* the filesystem: the files that exist

vars == <<docs, settings, _pelican_settings, last, source, output, files>>

---------------------------------------------------------------------------
(* Bounds *)

\* greatest number of fragments an initial document body is made of
MaxFrags == 2

\* number of document objects in the multi-document specification
NumDocs == 2

\* greatest number of segments a text given to the detector is made of
MaxSegs == 3

---------------------------------------------------------------------------
(* Python string operations *)

\* s[a:b] for 0 <= a, b
Slice(s, a, b) == SubSeq(s, a + 1, IF b > Len(s) THEN Len(s) ELSE b)

\* s.startswith(sub, i)
StartsAt(s, sub, i) ==
    /\ i + Len(sub) <= Len(s)
    /\ \A k \in 1..Len(sub) : s[i + k] = sub[k]

\* s.find(sub, start): lowest 0-based index >= start, or -1
Find(s, sub, start) ==
    LET hits == {i \in start..(Len(s) - Len(sub)) : StartsAt(s, sub, i)}
    IN  IF hits = {} THEN -1
        ELSE CHOOSE i \in hits : \A j \in hits : i <= j

\* sub in s
In(sub, s) == Find(s, sub, 0) # -1

\* s.replace(old, new, 1)
ReplaceFirst(s, old, new) ==
    LET p == Find(s, old, 0)
    IN  IF p = -1 THEN s
        ELSE Slice(s, 0, p) \o new \o Slice(s, p + Len(old), Len(s))

\* number of positions at which sub occurs in s
Count(sub, s) == Cardinality({i \in 0..(Len(s) - Len(sub)) : StartsAt(s, sub, i)})

---------------------------------------------------------------------------
(* String literals of __init__.py *)

LOCAL_URL ==
    <<"/", "s", "t", "a", "t", "i", "c", "/", "j", "s", "/",
      "k", "i", "c", "a", "n", "v", "a", "s", ".", "j", "s">>

CDN_URL ==
    <<"h", "t", "t", "p", "s", ":", "/", "/",
      "k", "i", "c", "a", "n", "v", "a", "s", ".", "o", "r", "g", "/",
      "k", "i", "c", "a", "n", "v", "a", "s", "/",
      "k", "i", "c", "a", "n", "v", "a", "s", ".", "j", "s">>

\* f'<script type="module" src="{kicanvas_url}"></script>\n'
script_tag(kicanvas_url) ==
    <<"<", "s", "c", "r", "i", "p", "t", " ",
      "t", "y", "p", "e", "=", "\"", "m", "o", "d", "u", "l", "e", "\"", " ",
      "s", "r", "c", "=", "\"">>
    \o kicanvas_url
    \o <<"\"", ">", "<", "/", "s", "c", "r", "i", "p", "t", ">", "\n">>

HEAD_CLOSE == <<"<", "/", "h", "e", "a", "d", ">">>

BODY_OPEN == <<"<", "b", "o", "d", "y">>

GT == <<">">>

NL == <<"\n">>

---------------------------------------------------------------------------
(* Content objects *)

Absent == [kind |-> "absent", text |-> <<>>]   \* the object has no _content
None == [kind |-> "None", text |-> <<>>]       \* _content is None
Str(s) == [kind |-> "str", text |-> s]

\* content.extra_js: the attribute is missing, or holds a list of URLs,
\* or holds one URL as a string
NoExtraJs == [kind |-> "absent", items |-> <<>>]
ExtraJsList(urls) == [kind |-> "list", items |-> urls]
ExtraJsStr(url) == [kind |-> "str", items |-> <<url>>]

\* Python truthiness of content._content, guarded by hasattr
Truthy(c) == c.kind = "str" /\ c.text # <<>>

NoSettings ==
    [isNone |-> TRUE, KICANVAS_USE_CDN |-> "unset", PATH |-> Absent,
     OUTPUT_PATH |-> Absent, KICAD_SCHEMATICS_PATH |-> Absent]

\* variant: the remote copy is the default when the setting is missing
use_cdn_default_true(s) == s.isNone \/ s.KICANVAS_USE_CDN # "False"

\* settings = _pelican_settings or {}; settings.get("KICANVAS_USE_CDN", False)
use_cdn(s) == ~s.isNone /\ s.KICANVAS_USE_CDN = "True"

kicanvas_url(s) == IF use_cdn(s) THEN CDN_URL ELSE LOCAL_URL

---------------------------------------------------------------------------
(* KICAD_PATTERN, compiled with re.IGNORECASE | re.MULTILINE *)

\* \s
IsSpace(c) == c \in {" ", "\t", "\n", "\r", "\f"}

UPPERCASE ==
    <<"A", "B", "C", "D", "E", "F", "G", "H", "I", "J", "K", "L", "M",
      "N", "O", "P", "Q", "R", "S", "T", "U", "V", "W", "X", "Y", "Z">>

LOWERCASE ==
    <<"a", "b", "c", "d", "e", "f", "g", "h", "i", "j", "k", "l", "m",
      "n", "o", "p", "q", "r", "s", "t", "u", "v", "w", "x", "y", "z">>

LowerOf == [u \in {UPPERCASE[k] : k \in 1..26} |->
               LOWERCASE[CHOOSE k \in 1..26 : UPPERCASE[k] = u]]

Lower(c) == IF c \in DOMAIN LowerOf THEN LowerOf[c] ELSE c

\* a literal of the pattern at 0-based position i, compared under IGNORECASE
LitAt(s, lit, i) ==
    /\ i + Len(lit) <= Len(s)
    /\ \A k \in 1..Len(lit) : Lower(s[i + k]) = Lower(lit[k])

\* end of the greedy run \s* that starts at position i
RECURSIVE SkipSpaces(_, _)
SkipSpaces(s, i) ==
    IF i < Len(s) /\ IsSpace(s[i + 1]) THEN SkipSpaces(s, i + 1) ELSE i

LBRACES == <<"{", "{">>
LBRACE_PCT == <<"{", "%">>
DOTDOT == <<".", ".">>
COLONS == <<":", ":">>
LPAREN == <<"(">>
KICAD_US == <<"k", "i", "c", "a", "d", "_", "s", "c", "h", "e", "m", "a", "t", "i", "c">>
KICAD_DASH == <<"k", "i", "c", "a", "d", "-", "s", "c", "h", "e", "m", "a", "t", "i", "c">>

\* variant: \{\{kicad_schematic\(, no blanks inside the opener
alt_markdown_no_blanks(s, i) ==
    IF LitAt(s, LBRACES \o KICAD_US \o LPAREN, i)
    THEN i + 2 + Len(KICAD_US) + 1
    ELSE -1

\* Each alternative gives the end of its match starting at i, or -1.
\* \{\{\s*kicad_schematic\s*\(
alt_markdown(s, i) ==
    IF ~LitAt(s, LBRACES, i) THEN -1
    ELSE LET j == SkipSpaces(s, i + 2)
         IN  IF ~LitAt(s, KICAD_US, j) THEN -1
             ELSE LET k == SkipSpaces(s, j + Len(KICAD_US))
                  IN  IF LitAt(s, LPAREN, k) THEN k + 1 ELSE -1

\* variant: \.\.\s*kicad-schematic::
alt_rst_optional_space(s, i) ==
    IF ~LitAt(s, DOTDOT, i) THEN -1
    ELSE LET j == SkipSpaces(s, i + 2)
         IN  IF LitAt(s, KICAD_DASH \o COLONS, j)
             THEN j + Len(KICAD_DASH) + 2
             ELSE -1

\* \.\.\s+kicad-schematic::
alt_rst(s, i) ==
    IF ~LitAt(s, DOTDOT, i) THEN -1
    ELSE LET j == SkipSpaces(s, i + 2)
         IN  IF j > i + 2 /\ LitAt(s, KICAD_DASH \o COLONS, j)
             THEN j + Len(KICAD_DASH) + 2
             ELSE -1

\* \{%\s*kicad_schematic\s+
alt_liquid(s, i) ==
    IF ~LitAt(s, LBRACE_PCT, i) THEN -1
    ELSE LET j == SkipSpaces(s, i + 2)
         IN  IF ~LitAt(s, KICAD_US, j) THEN -1
             ELSE LET k == SkipSpaces(s, j + Len(KICAD_US))
                  IN  IF k > j + Len(KICAD_US) THEN k ELSE -1

\* the alternation, tried in order at position i
KICAD_PATTERN_match(s, i) ==
    IF alt_markdown(s, i) # -1 THEN alt_markdown(s, i)
    ELSE IF alt_rst(s, i) # -1 THEN alt_rst(s, i)
    ELSE alt_liquid(s, i)

\* start of the leftmost match at or after pos, or -1
KICAD_PATTERN_scan(s, pos) ==
    LET hits == {i \in pos..(Len(s) - 1) : KICAD_PATTERN_match(s, i) # -1}
    IN  IF hits = {} THEN -1
        ELSE CHOOSE i \in hits : \A j \in hits : i <= j

\* KICAD_PATTERN.search(s) is not None
KICAD_PATTERN_search(s) == KICAD_PATTERN_scan(s, 0) # -1

\* len(KICAD_PATTERN.findall(s)): non-overlapping matches, left to right
RECURSIVE KICAD_PATTERN_findall(_, _)
KICAD_PATTERN_findall(s, pos) ==
    LET i == KICAD_PATTERN_scan(s, pos)
    IN  IF i = -1 THEN 0
        ELSE 1 + KICAD_PATTERN_findall(s, KICAD_PATTERN_match(s, i))

---------------------------------------------------------------------------
(* inject_kicanvas_script *)

\* not hasattr(content, "_content") or content._content is None
no_raw_content(content) == content._content.kind # "str"

\* variant: content.kicanvas_embed = bool(KICAD_PATTERN.search(...))
inject_kicanvas_script_assign_bool(content) ==
    IF no_raw_content(content) THEN content
    ELSE IF KICAD_PATTERN_search(content._content.text)
         THEN [content EXCEPT !.kicanvas_embed = "True"]
         ELSE [content EXCEPT !.kicanvas_embed = "False"]

inject_kicanvas_script(content) ==
    IF no_raw_content(content) THEN content
    ELSE IF KICAD_PATTERN_search(content._content.text)
         THEN [content EXCEPT !.kicanvas_embed = "True"]
         ELSE content

---------------------------------------------------------------------------
(* inject_kicanvas_script_into_html *)

\* variant: the flag is not consulted
has_embed_unchecked(content) == TRUE

\* getattr(content, "kicanvas_embed", False)
has_embed(content) == content.kicanvas_embed = "True"

\* variant: the status is not consulted
not_published_unchecked(content) == FALSE

\* content.status != "published"
not_published(content) == content.status # "published"

\* variant: the marker is written but never tested
already_injected_unchecked(content) == FALSE

\* hasattr(content, "_kicanvas_script_injected")
already_injected(content) == content._kicanvas_script_injected # "absent"

\* not hasattr(content, "_content") or not content._content
no_html(content) == ~Truthy(content._content)

\* variant: no test for a loader reference that is already there
url_present_unchecked(url, html) == FALSE

\* kicanvas_url in html
url_present(url, html) == In(url, html)

\* variant: in the <body branch the tag goes right behind the five
\* characters "<body" instead of behind the next ">"
insert_script_after_marker(html, tag) ==
    IF In(HEAD_CLOSE, html)
    THEN ReplaceFirst(html, HEAD_CLOSE, tag \o HEAD_CLOSE)
    ELSE IF In(BODY_OPEN, html)
    THEN LET body_pos == Find(html, BODY_OPEN, 0) + Len(BODY_OPEN)
         IN  Slice(html, 0, body_pos) \o NL \o tag
                 \o Slice(html, body_pos, Len(html))
    ELSE tag \o html

\* the three insertion positions
insert_script(html, tag) ==
    IF In(HEAD_CLOSE, html)
    THEN ReplaceFirst(html, HEAD_CLOSE, tag \o HEAD_CLOSE)
    ELSE IF In(BODY_OPEN, html)
    THEN LET body_pos == Find(html, GT, Find(html, BODY_OPEN, 0)) + 1
         IN  Slice(html, 0, body_pos) \o NL \o tag
                 \o Slice(html, body_pos, Len(html))
    ELSE tag \o html

inject_kicanvas_script_into_html(content, gs) ==
    IF ~has_embed(content) THEN content
    ELSE IF not_published(content) THEN content
    ELSE IF already_injected(content) THEN content
    ELSE LET marked == [content EXCEPT !._kicanvas_script_injected = "True"]
             url == kicanvas_url(gs)
             html == content._content.text
         IN  IF no_html(marked) THEN marked
             ELSE IF url_present(url, html) THEN marked
             ELSE [marked EXCEPT !._content = Str(insert_script(html, script_tag(url)))]

---------------------------------------------------------------------------
(* Inputs *)

\* all concatenations of at most n members of F
RECURSIVE Concats(_, _)
Concats(F, n) ==
    IF n = 0 THEN {<<>>}
    ELSE LET shorter == Concats(F, n - 1)
         IN  shorter \cup {p \o f : p \in shorter, f \in F}

PARAGRAPH == <<"<", "p", ">", "x", "<", "/", "p", ">">>
BODY_TAG == <<"<", "b", "o", "d", "y", ">">>
BODY_QUOTED_GT == <<"<", "b", "o", "d", "y", " ", "a", "=", "\"", ">", "\"", ">">>
LIQUID_OPENER ==
    <<"{", "%", " ", "k", "i", "c", "a", "d", "_",
      "s", "c", "h", "e", "m", "a", "t", "i", "c", " ">>

\* pieces of rendered documents: markup the guard looks for, a loader
\* reference that is already there, and embed syntax left in the text
HtmlFragments ==
    { PARAGRAPH, HEAD_CLOSE, BODY_TAG, BODY_OPEN, BODY_QUOTED_GT,
      script_tag(LOCAL_URL), script_tag(CDN_URL), LIQUID_OPENER }

HtmlBodies == Concats(HtmlFragments, MaxFrags)

\* a few whole documents for the runs over several documents
SampleBodies ==
    { <<>>,
      PARAGRAPH,
      LIQUID_OPENER \o HEAD_CLOSE \o BODY_TAG }

\* pieces of source text: openers of the three grammars in several
\* spellings, openers with a part missing, and the parts themselves
PatternSegments ==
    { <<"{", "{", " ", "k", "i", "c", "a", "d", "_",
        "s", "c", "h", "e", "m", "a", "t", "i", "c", "(">>,
      <<"{", "{", "K", "I", "C", "A", "D", "_",
        "S", "C", "H", "E", "M", "A", "T", "I", "C", "\n", "(">>,
      <<"{", "{", " ", "k", "i", "c", "a", "d", "_",
        "s", "c", "h", "e", "m", "a", "t", "i", "c">>,
      <<".", ".", " ", "k", "i", "c", "a", "d", "-",
        "s", "c", "h", "e", "m", "a", "t", "i", "c", ":", ":">>,
      <<"k", "i", "c", "a", "d", "-",
        "s", "c", "h", "e", "m", "a", "t", "i", "c", ":", ":">>,
      <<"{", "%", "K", "i", "c", "a", "d", "_",
        "S", "c", "h", "e", "m", "a", "t", "i", "c", "\n">>,
      <<"{", "%", " ", "k", "i", "c", "a", "d", "_",
        "s", "c", "h", "e", "m", "a", "t", "i", "c">>,
      <<"K", "i", "C", "a", "d">>,
      DOTDOT, LPAREN, <<" ">>, <<"\n">> }

PatternTexts == Concats(PatternSegments, MaxSegs)

Statuses == {"published", "draft"}

\* the Content objects the pipeline can hand to the plugin: with a body
\* out of B, or None, or no _content at all; kicanvas_embed only when the
\* document's metadata carries it (embeds lists the possible values)
NewContents(B, embeds, statuses) ==
    [ _content : {Str(b) : b \in B} \cup {None, Absent},
      kicanvas_embed : embeds,
      _kicanvas_script_injected : {"absent"},
      status : statuses,
      extra_js : {NoExtraJs} ]

PelicanSettings ==
    [ isNone : {FALSE}, KICANVAS_USE_CDN : {"unset", "False", "True"},
      PATH : {Absent}, OUTPUT_PATH : {Absent},
      KICAD_SCHEMATICS_PATH : {Absent} ]

NoCall(op) == [op |-> op, doc |-> 0, before |-> docs, result |-> -1]
Call(op, d) == [op |-> op, doc |-> d, before |-> docs, result |-> -1]

InitWith(D, B, embeds, statuses, confs) ==
    /\ docs \in [D -> NewContents(B, embeds, statuses)]
    /\ settings \in confs
    /\ _pelican_settings = NoSettings
    /\ last = NoCall("init")
    /\ source = <<>>
    /\ output = <<>>
    /\ files = {}

---------------------------------------------------------------------------
(* Operations *)

\* signals.content_object_init -> inject_kicanvas_script(content)
content_object_init(d) ==
    /\ docs' = [docs EXCEPT ![d] = inject_kicanvas_script(docs[d])]
    /\ last' = Call("inject_kicanvas_script", d)
    /\ UNCHANGED <<settings, _pelican_settings, source, output, files>>

\* variant: "only inject once" kept in one flag for all documents
call_inject_into_html_shared_flag(d) ==
    /\ docs' = [e \in DOMAIN docs |->
                  IF e = d
                  THEN inject_kicanvas_script_into_html(docs[e], _pelican_settings)
                  ELSE IF docs[d] # inject_kicanvas_script_into_html(docs[d], _pelican_settings)
                  THEN [docs[e] EXCEPT !._kicanvas_script_injected = "True"]
                  ELSE docs[e]]
    /\ last' = Call("inject_kicanvas_script_into_html", d)
    /\ UNCHANGED <<settings, _pelican_settings, source, output, files>>

\* a direct call inject_kicanvas_script_into_html(content)
call_inject_into_html(d) ==
    /\ docs' = [docs EXCEPT
                  ![d] = inject_kicanvas_script_into_html(docs[d], _pelican_settings)]
    /\ last' = Call("inject_kicanvas_script_into_html", d)
    /\ UNCHANGED <<settings, _pelican_settings, source, output, files>>

\* signals.article_generator_finalized -> inject_scripts_before_write:
\* the guard is applied to every article, then to every draft
inject_scripts_before_write ==
    /\ docs' = [d \in DOMAIN docs |->
                  inject_kicanvas_script_into_html(docs[d], _pelican_settings)]
    /\ last' = NoCall("inject_scripts_before_write")
    /\ UNCHANGED <<settings, _pelican_settings, source, output, files>>

\* signals.readers_init / signals.initialized -> add_jinja2_globals
add_jinja2_globals ==
    /\ _pelican_settings' = settings
    /\ last' = NoCall("add_jinja2_globals")
    /\ UNCHANGED <<docs, settings, source, output, files>>

\* KICAD_PATTERN.findall(text) on a document's source text
findall(d) ==
    /\ docs[d]._content.kind = "str"
    /\ last' = [Call("findall", d) EXCEPT
                  !.result = KICAD_PATTERN_findall(docs[d]._content.text, 0)]
    /\ UNCHANGED <<docs, settings, _pelican_settings, source, output, files>>

\* the pipeline: the body of a document that has none yet gets rendered
Render(d, b) ==
    /\ ~Truthy(docs[d]._content)
    /\ docs' = [docs EXCEPT ![d]._content = Str(b)]
    /\ last' = Call("render", d)
    /\ UNCHANGED <<settings, _pelican_settings, source, output, files>>

\* the pipeline: a draft becomes published
Publish(d) ==
    /\ docs[d].status = "draft"
    /\ docs' = [docs EXCEPT ![d].status = "published"]
    /\ last' = Call("publish", d)
    /\ UNCHANGED <<settings, _pelican_settings, source, output, files>>

Lifecycle(rendered) ==
    \/ \E d \in DOMAIN docs : content_object_init(d)
    \/ \E d \in DOMAIN docs : call_inject_into_html(d)
    \/ inject_scripts_before_write
    \/ add_jinja2_globals
    \/ \E d \in DOMAIN docs : \E b \in rendered : Render(d, b)
    \/ \E d \in DOMAIN docs : Publish(d)

\* one document, bodies built from the fragments
Init ==
    InitWith({1}, HtmlBodies, {"absent", "False", "True"}, Statuses, PelicanSettings)
Next == Lifecycle(SampleBodies \ {<<>>})
Spec == Init /\ [][Next]_vars

\* several documents, a few whole bodies
InitDocs ==
    InitWith(1..NumDocs, SampleBodies, {"absent"}, Statuses, PelicanSettings)
NextDocs == Lifecycle(SampleBodies \ {<<>>})
SpecDocs == InitDocs /\ [][NextDocs]_vars

\* the detector on source texts
InitPattern ==
    InitWith({1}, PatternTexts, {"absent"}, {"published"},
             {s \in PelicanSettings : s.KICANVAS_USE_CDN = "unset"})
NextPattern ==
    \/ \E d \in DOMAIN docs : content_object_init(d)
    \/ \E d \in DOMAIN docs : findall(d)
SpecPattern == InitPattern /\ [][NextPattern]_vars

---------------------------------------------------------------------------
(* Vocabulary of the properties *)

\* the document d as it was before the last call, and the text of a body
Was(d) == last.before[d]
Text(content) == content._content.text

\* the guard has just returned for d: called directly or by the
\* finalization hook
GuardReturned(d) ==
    \/ last.op = "inject_kicanvas_script_into_html" /\ last.doc = d
    \/ last.op = "inject_scripts_before_write"

DetectorReturned(d) == last.op = "inject_kicanvas_script" /\ last.doc = d

\* the loader URL the configuration selects
ConfiguredUrl ==
    IF ~_pelican_settings.isNone /\ _pelican_settings.KICANVAS_USE_CDN = "True"
    THEN CDN_URL ELSE LOCAL_URL

OtherUrl == IF ConfiguredUrl = CDN_URL THEN LOCAL_URL ELSE CDN_URL

\* the guard has just changed the body of d
GuardChangedBody(d) ==
    /\ GuardReturned(d)
    /\ Was(d)._content # docs[d]._content

\* new is old with ins inserted at 0-based position p
InsertedAt(old, new, ins, p) ==
    new = Slice(old, 0, p) \o ins \o Slice(old, p, Len(old))

\* sub occurs in s at p and nowhere in from..p-1
FirstFrom(s, sub, from, p) ==
    /\ p >= from
    /\ StartsAt(s, sub, p)
    /\ \A q \in from..(p - 1) : ~StartsAt(s, sub, q)

FirstAt(s, sub, p) == FirstFrom(s, sub, 0, p)

---------------------------------------------------------------------------
(* The injection guard: C1 .. C8 *)

\* C1: once the guard has run for a flagged, published document (the
\* marker it leaves is on the object), a further call of the guard leaves
\* the whole object, body included, as it was; and no call of the guard
\* adds more than one occurrence of a loader URL to a body.
C1_Idempotent ==
    \A d \in DOMAIN docs :
        GuardReturned(d) /\ Was(d).kicanvas_embed = "True"
                         /\ Was(d).status = "published" =>
            /\ Was(d)._kicanvas_script_injected = "True" => docs[d] = Was(d)
            /\ \A url \in {LOCAL_URL, CDN_URL} :
                   Count(url, Text(docs[d])) <= Count(url, Text(Was(d))) + 1

\* a second call on a document whose body got its loader from the first
C1_Witness ==
    \E d \in DOMAIN docs :
        /\ last.op = "inject_kicanvas_script_into_html" /\ last.doc = d
        /\ Was(d).kicanvas_embed = "True" /\ Was(d).status = "published"
        /\ Was(d)._kicanvas_script_injected = "True"
        /\ Count(script_tag(ConfiguredUrl), Text(docs[d])) = 1
        /\ ~In(OtherUrl, Text(docs[d]))

\* C2: after the guard returns for a flagged, published document with a
\* rendered (non-empty) body, the body holds the configured loader URL
\* exactly once.  Stated for the bodies that did not hold the URL several
\* times before the call: references that are already there are kept.
C2_LoaderExactlyOnce ==
    \A d \in DOMAIN docs :
        GuardReturned(d) /\ docs[d].kicanvas_embed = "True"
                         /\ docs[d].status = "published"
                         /\ Truthy(docs[d]._content)
                         /\ Count(ConfiguredUrl, Text(Was(d))) <= 1 =>
            Count(ConfiguredUrl, Text(docs[d])) = 1

\* C3: the guard leaves a document whose kicanvas_embed is absent or
\* false exactly as it was, whatever its status and body.
C3_UnflaggedUntouched ==
    \A d \in DOMAIN docs :
        GuardReturned(d) /\ Was(d).kicanvas_embed \in {"absent", "False"} =>
            docs[d] = Was(d)

\* the guard called on a published document with a body and without a
\* loader, which only the flag keeps from being injected
C3_Witness ==
    \E d \in DOMAIN docs :
        /\ last.op = "inject_kicanvas_script_into_html" /\ last.doc = d
        /\ Was(d).kicanvas_embed \in {"absent", "False"}
        /\ Was(d).status = "published"
        /\ Was(d)._kicanvas_script_injected = "absent"
        /\ Truthy(Was(d)._content)
        /\ ~In(ConfiguredUrl, Text(Was(d)))

\* C4: the guard leaves a document that is not published exactly as it
\* was (body unchanged, marker not set), also when the finalization hook
\* passes it; so no draft ever carries the marker, and a call on a flagged,
\* published, unmarked document with a body that lacks the loader URL
\* does insert the loader.
C4_DraftUntouched ==
    \A d \in DOMAIN docs :
        /\ GuardReturned(d) /\ Was(d).status # "published" => docs[d] = Was(d)
        /\ docs[d].status # "published" =>
               docs[d]._kicanvas_script_injected = "absent"
        /\ GuardReturned(d) /\ Was(d).kicanvas_embed = "True"
                            /\ Was(d).status = "published"
                            /\ Was(d)._kicanvas_script_injected = "absent"
                            /\ Truthy(Was(d)._content)
                            /\ ~In(ConfiguredUrl, Text(Was(d))) =>
               In(script_tag(ConfiguredUrl), Text(docs[d]))

\* the finalization hook has passed a flagged draft with a body and
\* without a loader
C4_Witness ==
    \E d \in DOMAIN docs :
        /\ last.op = "inject_scripts_before_write"
        /\ Was(d).status = "draft"
        /\ Was(d).kicanvas_embed = "True"
        /\ Truthy(Was(d)._content)
        /\ ~In(ConfiguredUrl, Text(Was(d)))

\* C5: when the selected loader URL occurs in the body, the guard leaves
\* the body as it is.
C5_PresentUrlKeepsBody ==
    \A d \in DOMAIN docs :
        GuardReturned(d) /\ Was(d)._content.kind = "str"
                         /\ In(ConfiguredUrl, Text(Was(d))) =>
            docs[d]._content = Was(d)._content

\* the guard got as far as the test for the URL: flagged, published, not
\* marked before, and the body holds the URL
C5_Witness ==
    \E d \in DOMAIN docs :
        /\ GuardReturned(d)
        /\ Was(d).kicanvas_embed = "True" /\ Was(d).status = "published"
        /\ Was(d)._kicanvas_script_injected = "absent"
        /\ docs[d]._kicanvas_script_injected = "True"
        /\ In(ConfiguredUrl, Text(Was(d)))
        /\ ~In(HEAD_CLOSE, Text(Was(d)))

C7_UrlFromConfiguration ==
    \A d \in DOMAIN docs :
        GuardChangedBody(d) =>
            /\ Count(ConfiguredUrl, Text(docs[d]))
                   = Count(ConfiguredUrl, Text(Was(d))) + 1
            /\ Count(OtherUrl, Text(docs[d])) = Count(OtherUrl, Text(Was(d)))

\* the guard has inserted the local URL, the setting being missing, into
\* a body that holds the remote URL
C7_Witness ==
    \E d \in DOMAIN docs :
        /\ GuardChangedBody(d)
        /\ _pelican_settings.isNone
        /\ In(CDN_URL, Text(Was(d)))
        /\ In(LOCAL_URL, Text(docs[d]))

\* C8: a call of the detection hook or of the guard for one document
\* leaves every other document object as it was.
C8_OtherDocumentsUntouched ==
    \A d \in DOMAIN docs :
        \/ DetectorReturned(d)
        \/ last.op = "inject_kicanvas_script_into_html" /\ last.doc = d
        => \A e \in DOMAIN docs \ {d} : docs[e] = Was(e)

\* the guard has inserted into one document while another one was flagged,
\* published, unmarked and without loader
C8_Witness ==
    \E d \in DOMAIN docs : \E e \in DOMAIN docs \ {d} :
        /\ last.op = "inject_kicanvas_script_into_html" /\ last.doc = d
        /\ Was(d)._content # docs[d]._content
        /\ docs[e].kicanvas_embed = "True" /\ docs[e].status = "published"
        /\ docs[e]._kicanvas_script_injected = "absent"
        /\ Truthy(docs[e]._content)
        /\ ~In(ConfiguredUrl, Text(docs[e]))

---------------------------------------------------------------------------
(* The detector: C9, C10 *)

\* the same letter in either case, or the same character
SameLetter(a, b) ==
    \/ a = b
    \/ \E k \in 1..26 : {a, b} = {UPPERCASE[k], LOWERCASE[k]}

\* the word w stands in t at 0-based position i, in any letter case
WordAt(t, w, i) ==
    /\ i + Len(w) <= Len(t)
    /\ \A k \in 1..Len(w) : SameLetter(t[i + k], w[k])

\* the positions i .. j-1 of t hold whitespace only
Blank(t, i, j) == \A k \in (i + 1)..j : IsSpace(t[k])

\* '{{' optional whitespace 'kicad_schematic' optional whitespace '('
MarkdownOpenerAt(t, i) ==
    /\ WordAt(t, LBRACES, i)
    /\ \E j \in (i + 2)..Len(t) :
          /\ Blank(t, i + 2, j)
          /\ WordAt(t, KICAD_US, j)
          /\ \E k \in (j + Len(KICAD_US))..Len(t) :
                Blank(t, j + Len(KICAD_US), k) /\ WordAt(t, LPAREN, k)

\* '..' whitespace 'kicad-schematic::'
RstOpenerAt(t, i) ==
    /\ WordAt(t, DOTDOT, i)
    /\ \E j \in (i + 3)..Len(t) :
          Blank(t, i + 2, j) /\ WordAt(t, KICAD_DASH \o COLONS, j)

\* '{%' optional whitespace 'kicad_schematic' whitespace
LiquidOpenerAt(t, i) ==
    /\ WordAt(t, LBRACE_PCT, i)
    /\ \E j \in (i + 2)..Len(t) :
          /\ Blank(t, i + 2, j)
          /\ WordAt(t, KICAD_US, j)
          /\ j + Len(KICAD_US) < Len(t)
          /\ IsSpace(t[j + Len(KICAD_US) + 1])

Positions(t) == 0..(Len(t) - 1)

HasOpener(t) ==
    \E i \in Positions(t) :
        MarkdownOpenerAt(t, i) \/ RstOpenerAt(t, i) \/ LiquidOpenerAt(t, i)

OneOpenerOfEach(t) ==
    /\ Cardinality({i \in Positions(t) : MarkdownOpenerAt(t, i)}) = 1
    /\ Cardinality({i \in Positions(t) : RstOpenerAt(t, i)}) = 1
    /\ Cardinality({i \in Positions(t) : LiquidOpenerAt(t, i)}) = 1

\* C9: KICAD_PATTERN finds a match in a text exactly when the text holds
\* one of the three openers, in any letter case and across line ends; and
\* findall on a text with one opener of each grammar gives three matches.
C9_PatternMatchesOpeners ==
    \A d \in DOMAIN docs :
        docs[d]._content.kind = "str" =>
            /\ KICAD_PATTERN_search(Text(docs[d])) <=> HasOpener(Text(docs[d]))
            /\ last.op = "findall" /\ last.doc = d
                   /\ OneOpenerOfEach(Text(docs[d])) => last.result = 3

\* findall has run on a text with one opener of each grammar, one of them
\* in capitals with a line end in it
C9_Witness ==
    \E d \in DOMAIN docs :
        /\ last.op = "findall" /\ last.doc = d
        /\ OneOpenerOfEach(Text(docs[d]))
        /\ \E i \in Positions(Text(docs[d])) :
              /\ MarkdownOpenerAt(Text(docs[d]), i)
              /\ Text(docs[d])[i + 3] = "K"

\* C10: inject_kicanvas_script sets kicanvas_embed to true when the
\* document has a _content that is not None and that KICAD_PATTERN
\* matches, and changes nothing else; otherwise it leaves the object as it
\* was, without the attribute if it had none.
C10_FlagIffMatch ==
    \A d \in DOMAIN docs :
        DetectorReturned(d) =>
            IF Was(d)._content.kind = "str" /\ HasOpener(Text(Was(d)))
            THEN docs[d] = [Was(d) EXCEPT !.kicanvas_embed = "True"]
            ELSE docs[d] = Was(d)

\* the hook has flagged a document whose whole text is an opening token
C10_Witness ==
    \E d \in DOMAIN docs :
        /\ DetectorReturned(d)
        /\ Was(d).kicanvas_embed = "absent"
        /\ docs[d].kicanvas_embed = "True"
        /\ Len(Text(docs[d])) = Len(LBRACES) + 1 + Len(KICAD_US) + 1
        /\ MarkdownOpenerAt(Text(docs[d]), 0)

---------------------------------------------------------------------------
(* md_ext.py: KiCadSchematicPreprocessor *)

COMMA == <<",">>
EQUALS == <<"=">>
RPAREN == <<")">>
RBRACES == <<"}", "}">>
STYLE == <<"s", "t", "y", "l", "e">>
CONTROLS == <<"c", "o", "n", "t", "r", "o", "l", "s">>

\* ["']
IsQuote(c) == c \in {"\"", "'"}

\* end of the greedy run [^"']* that starts at position i
RunNoQuote(s, i) ==
    LET stops == {j \in i..(Len(s) - 1) : IsQuote(s[j + 1])}
    IN  IF stops = {} THEN Len(s)
        ELSE CHOOSE j \in stops : \A k \in stops : j <= k

\* end of the greedy run \S* that starts at position i
RunNoSpace(s, i) ==
    LET stops == {j \in i..(Len(s) - 1) : IsSpace(s[j + 1])}
    IN  IF stops = {} THEN Len(s)
        ELSE CHOOSE j \in stops : \A k \in stops : j <= k

\* a group that did not take part in the match
NoGroup == [end |-> -1, value |-> None]

\* (?:,\s*key\s*=\s*["'](?P<key>[^"']*)["'])? tried at position i: the end
\* of the group and the text it captured, or NoGroup
option_group(s, key, i) ==
    LET captured(c, e) ==
            IF c < Len(s) /\ IsQuote(s[c + 1]) /\ e < Len(s)
            THEN [end |-> e + 1, value |-> Str(Slice(s, c + 1, e))]
            ELSE NoGroup
        quoted(c) == captured(c, RunNoQuote(s, c + 1))
        equals(b) ==
            IF ~LitAt(s, EQUALS, b) THEN NoGroup
            ELSE quoted(SkipSpaces(s, b + 1))
        keyed(a) ==
            IF ~LitAt(s, key, a) THEN NoGroup
            ELSE equals(SkipSpaces(s, a + Len(key)))
    IN  IF ~LitAt(s, COMMA, i) THEN NoGroup
        ELSE keyed(SkipSpaces(s, i + 1))

NoTail == [end |-> -1, style |-> None, controls |-> None]

\* variant: the closing braces are optional, \s*\)\s*(?:\}\})?
PATTERN_tail_braces_optional(s, r) ==
    LET closed(st, co, t3, t4) ==
            IF LitAt(s, RPAREN, t3)
            THEN [end |-> IF LitAt(s, RBRACES, t4) THEN t4 + 2 ELSE t3 + 1,
                  style |-> st.value, controls |-> co.value]
            ELSE NoTail
        closing(st, co, t3) == closed(st, co, t3, SkipSpaces(s, t3 + 1))
        after_controls(st, co, t1) ==
            closing(st, co, SkipSpaces(s, IF co.end = -1 THEN t1 ELSE co.end))
        controls_at(st, t1) ==
            after_controls(st, option_group(s, CONTROLS, t1), t1)
        after_style(st, t0) ==
            controls_at(st, IF st.end = -1 THEN t0 ELSE st.end)
        style_at(t0) == after_style(option_group(s, STYLE, t0), t0)
    IN  style_at(SkipSpaces(s, r))

\* the pattern behind the filename, tried at position r:
\* \s* (style group)? (controls group)? \s*\)\s*\}\}
PATTERN_tail(s, r) ==
    LET closed(st, co, t3, t4) ==
            IF LitAt(s, RPAREN, t3) /\ LitAt(s, RBRACES, t4)
            THEN [end |-> t4 + 2, style |-> st.value, controls |-> co.value]
            ELSE NoTail
        closing(st, co, t3) == closed(st, co, t3, SkipSpaces(s, t3 + 1))
        after_controls(st, co, t1) ==
            closing(st, co, SkipSpaces(s, IF co.end = -1 THEN t1 ELSE co.end))
        controls_at(st, t1) ==
            after_controls(st, option_group(s, CONTROLS, t1), t1)
        after_style(st, t0) ==
            controls_at(st, IF st.end = -1 THEN t0 ELSE st.end)
        style_at(t0) == after_style(option_group(s, STYLE, t0), t0)
    IN  style_at(SkipSpaces(s, r))

\* \{\{\s*kicad_schematic\s*\(\s* at position i: its end, or -1
PATTERN_open(s, i) ==
    LET paren(k) == IF LitAt(s, LPAREN, k) THEN SkipSpaces(s, k + 1) ELSE -1
        name(j) ==
            IF ~LitAt(s, KICAD_US, j) THEN -1
            ELSE paren(SkipSpaces(s, j + Len(KICAD_US)))
    IN  IF ~LitAt(s, LBRACES, i) THEN -1
        ELSE name(SkipSpaces(s, i + 2))

NoMatch ==
    [end |-> -1, quoted_filename |-> None, unquoted_filename |-> None,
     style |-> None, controls |-> None]

\* ["'](?P<quoted_filename>[^"']+)["'] at position p, then the tail
quoted_alternative(s, p) ==
    LET matched(e, t) ==
            IF t.end # -1
            THEN [end |-> t.end, quoted_filename |-> Str(Slice(s, p + 1, e)),
                  unquoted_filename |-> None,
                  style |-> t.style, controls |-> t.controls]
            ELSE NoMatch
        closed(e) ==
            IF e > p + 1 /\ e < Len(s)
            THEN matched(e, PATTERN_tail(s, e + 1)) ELSE NoMatch
    IN  IF p < Len(s) /\ IsQuote(s[p + 1])
        THEN closed(RunNoQuote(s, p + 1)) ELSE NoMatch

\* (?P<unquoted_filename>\S+) at position p, then the tail: the run is
\* greedy, so of the ends that let the tail match the last one wins
unquoted_alternative(s, p) ==
    LET tails == [e \in (p + 1)..RunNoSpace(s, p) |-> PATTERN_tail(s, e)]
        matched(e, t) ==
            [end |-> t.end, quoted_filename |-> None,
             unquoted_filename |-> Str(Slice(s, p, e)),
             style |-> t.style, controls |-> t.controls]
        last_of(ends) ==
            IF ends = {} THEN NoMatch
            ELSE matched(CHOOSE x \in ends : \A y \in ends : x >= y,
                         tails[CHOOSE x \in ends : \A y \in ends : x >= y])
    IN  last_of({e \in DOMAIN tails : tails[e].end # -1})

\* PATTERN.match(s, i): the match object, or NoMatch
PATTERN_match(s, i) ==
    LET either(quoted, p) ==
            IF quoted.end # -1 THEN quoted ELSE unquoted_alternative(s, p)
        opened(p) ==
            IF p = -1 THEN NoMatch ELSE either(quoted_alternative(s, p), p)
    IN  opened(PATTERN_open(s, i))

\* start of the leftmost match at or after pos, or -1
PATTERN_scan(s, pos) ==
    LET first(hits) ==
            IF hits = {} THEN -1
            ELSE CHOOSE i \in hits : \A j \in hits : i <= j
    IN  first({i \in pos..(Len(s) - 1) : PATTERN_match(s, i).end # -1})

\* match.group(name) or ""
group_or_empty(g) == IF g.kind = "str" THEN g.text ELSE <<>>

EMBED_OPEN ==
    <<"<", "k", "i", "c", "a", "n", "v", "a", "s", "-",
      "e", "m", "b", "e", "d", " ">>
EMBED_CLOSE ==
    <<">", "<", "/", "k", "i", "c", "a", "n", "v", "a", "s", "-",
      "e", "m", "b", "e", "d", ">">>
SRC_STATIC ==
    <<"s", "r", "c", "=", "\"", "/", "s", "t", "a", "t", "i", "c", "/",
      "s", "c", "h", "e", "m", "a", "t", "i", "c", "s", "/">>
CONTROLS_ATTR == <<"c", "o", "n", "t", "r", "o", "l", "s", "=", "\"">>
STYLE_ATTR == <<"s", "t", "y", "l", "e", "=", "\"">>
DQUOTE == <<"\"">>
SPACE == <<" ">>

\* variant: the attributes are appended whatever their value
attrs_unconditional(filename, style, controls) ==
    <<SRC_STATIC \o filename \o DQUOTE,
      CONTROLS_ATTR \o controls \o DQUOTE,
      STYLE_ATTR \o style \o DQUOTE>>

\* attrs = [src]; if controls: attrs.append(...); if style: attrs.append(...)
attrs(filename, style, controls) ==
    <<SRC_STATIC \o filename \o DQUOTE>>
    \o (IF controls # <<>> THEN <<CONTROLS_ATTR \o controls \o DQUOTE>> ELSE <<>>)
    \o (IF style # <<>> THEN <<STYLE_ATTR \o style \o DQUOTE>> ELSE <<>>)

\* sep.join(items)
RECURSIVE join(_, _)
join(sep, items) ==
    IF items = <<>> THEN <<>>
    ELSE IF Len(items) = 1 THEN items[1]
    ELSE items[1] \o sep \o join(sep, Tail(items))

\* f"<kicanvas-embed {' '.join(attrs)}></kicanvas-embed>"
kicanvas_embed(filename, style, controls) ==
    EMBED_OPEN \o join(SPACE, attrs(filename, style, controls)) \o EMBED_CLOSE

_replace_match(match) ==
    LET either(quoted, unquoted) == IF quoted # <<>> THEN quoted ELSE unquoted
    IN  kicanvas_embed(either(group_or_empty(match.quoted_filename),
                              group_or_empty(match.unquoted_filename)),
                       group_or_empty(match.style),
                       group_or_empty(match.controls))

\* PATTERN.sub(self._replace_match, line), from position pos on
RECURSIVE PATTERN_sub(_, _)
PATTERN_sub(line, pos) ==
    LET replaced(i, match) ==
            Slice(line, pos, i) \o _replace_match(match)
                \o PATTERN_sub(line, match.end)
        from(i) ==
            IF i = -1 THEN Slice(line, pos, Len(line))
            ELSE replaced(i, PATTERN_match(line, i))
    IN  from(PATTERN_scan(line, pos))

\* KiCadSchematicPreprocessor.run(lines)
run(lines) == [k \in 1..Len(lines) |-> PATTERN_sub(lines[k], 0)]

---------------------------------------------------------------------------
(* liquid_tag.py: kicad_schematic_tag *)

INVALID_OPEN ==
    <<"<", "!", "-", "-", " ", "I", "n", "v", "a", "l", "i", "d", " ",
      "k", "i", "c", "a", "d", "_", "s", "c", "h", "e", "m", "a", "t", "i", "c",
      " ", "s", "y", "n", "t", "a", "x", ":", " ">>
INVALID_CLOSE == <<" ", "-", "-", ">">>

\* key\s*=\s*["']([^"']*)["'] tried at position i
parameter_at(s, key, i) ==
    IF ~LitAt(s, key, i) THEN NoGroup
    ELSE LET b == SkipSpaces(s, i + Len(key))
         IN  IF ~LitAt(s, EQUALS, b) THEN NoGroup
             ELSE LET c == SkipSpaces(s, b + 1)
                      e == RunNoQuote(s, c + 1)
                  IN  IF c < Len(s) /\ IsQuote(s[c + 1]) /\ e < Len(s)
                      THEN [end |-> e + 1, value |-> Str(Slice(s, c + 1, e))]
                      ELSE NoGroup

\* re.search(r'key\s*=\s*["\']([^"\']*)["\']', markup, re.IGNORECASE):
\* the leftmost match, or NoGroup
parameter_search(markup, key) ==
    LET hits == {i \in 0..(Len(markup) - 1) : parameter_at(markup, key, i).end # -1}
    IN  IF hits = {} THEN NoGroup
        ELSE parameter_at(markup, key, CHOOSE i \in hits : \A j \in hits : i <= j)

\* variant: a markup without a filename token is rendered like any other
kicad_schematic_tag_no_placeholder(markup) ==
    LET p == SkipSpaces(markup, 0)
        filename == Slice(markup, p, RunNoSpace(markup, p))
        style == group_or_empty(parameter_search(markup, STYLE).value)
        controls == group_or_empty(parameter_search(markup, CONTROLS).value)
    IN  kicanvas_embed(filename, style, controls)

\* kicad_schematic_tag(preprocessor, tag, markup); the filename is the
\* group of re.match(r"^\s*(\S+)", markup)
kicad_schematic_tag(markup) ==
    LET p == SkipSpaces(markup, 0)
        filename == Slice(markup, p, RunNoSpace(markup, p))
        style == group_or_empty(parameter_search(markup, STYLE).value)
        controls == group_or_empty(parameter_search(markup, CONTROLS).value)
    IN  IF filename = <<>> THEN INVALID_OPEN \o markup \o INVALID_CLOSE
        ELSE kicanvas_embed(filename, style, controls)

---------------------------------------------------------------------------
(* rst_directive.py: KiCadSchematicDirective *)

\* self.options.get(name, ""); an option docutils did not see is Absent
options_get(option) == IF option.kind = "str" THEN option.text ELSE <<>>

\* KiCadSchematicDirective.run: the list with the one raw node
KiCadSchematicDirective_run(arguments, options) ==
    LET filename == arguments[1]
        style == options_get(options.style)
        controls == options_get(options.controls)
    IN  << [node |-> "raw", format |-> "html",
            text |-> kicanvas_embed(filename, style, controls)] >>

---------------------------------------------------------------------------
(* pathlib and the filesystem *)

SLASH == <<"/">>
BACKSLASH == <<"\\">>

\* the components of a path string: the runs between "/", without the
\* empty ones and without "."
RECURSIVE Components(_)
Components(s) ==
    IF s = <<>> THEN <<>>
    ELSE LET p == Find(s, SLASH, 0)
             first == IF p = -1 THEN s ELSE Slice(s, 0, p)
             rest == IF p = -1 THEN <<>> ELSE Slice(s, p + 1, Len(s))
         IN  (IF first = <<>> \/ first = <<".">> THEN <<>> ELSE <<first>>)
             \o Components(rest)

\* Path(s)
Path(s) == [absolute |-> StartsAt(s, SLASH, 0), parts |-> Components(s)]

\* a / b
PathJoin(a, b) ==
    IF b.absolute THEN b
    ELSE [absolute |-> a.absolute, parts |-> a.parts \o b.parts]

\* p.parent
parent(p) ==
    [p EXCEPT !.parts = IF @ = <<>> THEN @ ELSE SubSeq(@, 1, Len(@) - 1)]

\* the directory the build runs in
CWD == << <<"s", "i", "t", "e">> >>

\* the components of p from the root on
FromRoot(p) == IF p.absolute THEN p.parts ELSE CWD \o p.parts

\* d is a directory: the root, or a directory some file lies in
IsDirectory(fs, d) ==
    d = <<>> \/ \E f \in fs : Len(f) > Len(d) /\ SubSeq(f, 1, Len(d)) = d

\* the system walking the components; ".." leaves a directory that has to
\* exist
RECURSIVE Walk(_, _, _)
Walk(fs, at, rest) ==
    IF rest = <<>> THEN at \in fs \/ IsDirectory(fs, at)
    ELSE IF Head(rest) = DOTDOT
    THEN /\ IsDirectory(fs, at)
         /\ Walk(fs, IF at = <<>> THEN at ELSE SubSeq(at, 1, Len(at) - 1),
                 Tail(rest))
    ELSE Walk(fs, Append(at, Head(rest)), Tail(rest))

\* variant: every probe succeeds
exists_unchecked(fs, p) == TRUE

\* p.exists()
exists(fs, p) == Walk(fs, <<>>, FromRoot(p))

\* the components with every ".." carried out
RECURSIVE Normalized(_, _)
Normalized(at, rest) ==
    IF rest = <<>> THEN at
    ELSE IF Head(rest) = DOTDOT
    THEN Normalized(IF at = <<>> THEN at ELSE SubSeq(at, 1, Len(at) - 1),
                    Tail(rest))
    ELSE Normalized(Append(at, Head(rest)), Tail(rest))

\* p.resolve(), there being no symbolic links
resolve(p) == [absolute |-> TRUE, parts |-> Normalized(<<>>, FromRoot(p))]

\* variant: the remaining components are taken without looking at root
relative_to_unchecked(p, root) ==
    [raised |-> FALSE,
     parts |-> SubSeq(p.parts, Len(root.parts) + 1, Len(p.parts))]

\* p.relative_to(root): the remaining components, or ValueError
relative_to(p, root) ==
    IF Len(root.parts) <= Len(p.parts)
       /\ SubSeq(p.parts, 1, Len(root.parts)) = root.parts
    THEN [raised |-> FALSE,
          parts |-> SubSeq(p.parts, Len(root.parts) + 1, Len(p.parts))]
    ELSE [raised |-> TRUE, parts |-> <<>>]

\* str(p) of a relative path
str(parts) == IF parts = <<>> THEN <<".">> ELSE join(SLASH, parts)

\* s.replace("\\", "/")
replace_backslashes(s) ==
    [k \in 1..Len(s) |-> IF <<s[k]>> = BACKSLASH THEN SLASH[1] ELSE s[k]]

\* s.rstrip("/")
RECURSIVE rstrip_slashes(_)
rstrip_slashes(s) ==
    IF s # <<>> /\ s[Len(s)] = "/"
    THEN rstrip_slashes(SubSeq(s, 1, Len(s) - 1)) ELSE s

---------------------------------------------------------------------------
(* resolve_schematic_path *)

HTTP == <<"h", "t", "t", "p">>
CONTENT == <<"c", "o", "n", "t", "e", "n", "t">>
OUTPUT == <<"o", "u", "t", "p", "u", "t">>

\* settings.get(key, default), settings being _pelican_settings or {}
settings_get(gs, value, default) ==
    IF ~gs.isNone /\ value.kind = "str" THEN value.text ELSE default

\* filename.startswith("/") or filename.startswith("http")
passes_through(filename) ==
    StartsAt(filename, SLASH, 0) \/ StartsAt(filename, HTTP, 0)

\* variant: the first strategy looks in the output tree only
resolve_schematic_path_output_only(filename, content_source_path, article_url, gs, fs) ==
    IF passes_through(filename)
    THEN [url |-> filename, by |-> "as-is", probed |-> {}]
    ELSE
    LET content_path == settings_get(gs, gs.PATH, CONTENT)
        output_path == settings_get(gs, gs.OUTPUT_PATH, OUTPUT)
        has_both == Truthy(article_url) /\ Truthy(content_source_path)
        url_path == rstrip_slashes(article_url.text)
        expected_output ==
            PathJoin(PathJoin(Path(output_path), Path(url_path)), Path(filename))
        schematic_source ==
            PathJoin(parent(Path(content_source_path.text)), Path(filename))
        rel_path ==
            relative_to(resolve(schematic_source), resolve(Path(content_path)))
        kicad_path == settings_get(gs, gs.KICAD_SCHEMATICS_PATH, <<>>)
        in_kicad_path ==
            PathJoin(PathJoin(Path(content_path), Path(kicad_path)), Path(filename))
        probed1 == IF has_both THEN {expected_output, schematic_source} ELSE {}
        probed2 == IF Truthy(content_source_path)
                   THEN probed1 \cup {schematic_source} ELSE probed1
        probed3 == IF kicad_path # <<>>
                   THEN probed2 \cup {in_kicad_path} ELSE probed2
    IN  IF has_both /\ exists(fs, expected_output)
        THEN [url |-> SLASH \o url_path \o SLASH \o filename,
              by |-> "output", probed |-> {expected_output}]
        ELSE IF Truthy(content_source_path) /\ exists(fs, schematic_source)
                /\ ~rel_path.raised
        THEN [url |-> SLASH \o replace_backslashes(str(rel_path.parts)),
              by |-> "content", probed |-> probed2]
        ELSE IF kicad_path # <<>> /\ exists(fs, in_kicad_path)
        THEN [url |-> SLASH \o kicad_path \o SLASH \o filename,
              by |-> "schematics", probed |-> probed3]
        ELSE [url |-> filename, by |-> "fallback", probed |-> probed3]

\* the URL returned, the return statement that gave it ("as-is" at line
\* 69, "output" 85, "source" 95, "content" 109, "schematics" 119,
\* "fallback" 122) and the paths whose existence was asked for
resolve_schematic_path(filename, content_source_path, article_url, gs, fs) ==
    IF passes_through(filename)
    THEN [url |-> filename, by |-> "as-is", probed |-> {}]
    ELSE
    LET content_path == settings_get(gs, gs.PATH, CONTENT)
        output_path == settings_get(gs, gs.OUTPUT_PATH, OUTPUT)
        has_both == Truthy(article_url) /\ Truthy(content_source_path)
        url_path == rstrip_slashes(article_url.text)
        expected_output ==
            PathJoin(PathJoin(Path(output_path), Path(url_path)), Path(filename))
        schematic_source ==
            PathJoin(parent(Path(content_source_path.text)), Path(filename))
        rel_path ==
            relative_to(resolve(schematic_source), resolve(Path(content_path)))
        kicad_path == settings_get(gs, gs.KICAD_SCHEMATICS_PATH, <<>>)
        in_kicad_path ==
            PathJoin(PathJoin(Path(content_path), Path(kicad_path)), Path(filename))
        probed1 == IF has_both THEN {expected_output, schematic_source} ELSE {}
        probed2 == IF Truthy(content_source_path)
                   THEN probed1 \cup {schematic_source} ELSE probed1
        probed3 == IF kicad_path # <<>>
                   THEN probed2 \cup {in_kicad_path} ELSE probed2
    IN  IF has_both /\ exists(fs, expected_output)
        THEN [url |-> SLASH \o url_path \o SLASH \o filename,
              by |-> "output", probed |-> {expected_output}]
        ELSE IF has_both /\ exists(fs, schematic_source)
        THEN [url |-> SLASH \o url_path \o SLASH \o filename,
              by |-> "source", probed |-> probed1]
        ELSE IF Truthy(content_source_path) /\ exists(fs, schematic_source)
                /\ ~rel_path.raised
        THEN [url |-> SLASH \o replace_backslashes(str(rel_path.parts)),
              by |-> "content", probed |-> probed2]
        ELSE IF kicad_path # <<>> /\ exists(fs, in_kicad_path)
        THEN [url |-> SLASH \o kicad_path \o SLASH \o filename,
              by |-> "schematics", probed |-> probed3]
        ELSE [url |-> filename, by |-> "fallback", probed |-> probed3]

---------------------------------------------------------------------------
(* kicad_schematic, the template function *)

DEFAULT_STYLE ==
    <<"w", "i", "d", "t", "h", ":", " ", "1", "0", "0", "%", ";", " ",
      "h", "e", "i", "g", "h", "t", ":", " ", "6", "0", "0", "p", "x", ";">>
DEFAULT_CONTROLS == <<"a", "l", "l">>
SRC_ATTR == <<"s", "r", "c", "=", "\"">>

\* an object of the context; an attribute it does not have is Absent
NoObject == [kind |-> "absent", source_path |-> Absent, url |-> Absent]
Object(source_path, url) ==
    [kind |-> "object", source_path |-> source_path, url |-> url]

\* variant: the article's source path is preferred to the context key
context_source_path_article_first(context) ==
    LET first == IF context.__source_path__.kind # "absent"
                 THEN context.__source_path__ ELSE None
    IN  IF context.article.kind # "absent"
           /\ context.article.source_path.kind # "absent"
        THEN context.article.source_path ELSE first

\* the source path and the URL the function takes from the context
context_source_path(context) ==
    LET first == IF context.__source_path__.kind # "absent"
                 THEN context.__source_path__ ELSE None
        holder == IF context.article.kind # "absent" THEN context.article
                  ELSE IF context.page.kind # "absent"
                          /\ context.page.source_path.kind # "absent"
                  THEN context.page ELSE NoObject
    IN  IF holder.source_path.kind # "absent" /\ ~Truthy(first)
        THEN holder.source_path ELSE first

context_article_url(context) ==
    LET first == IF context.__article_url__.kind # "absent"
                 THEN context.__article_url__ ELSE None
        holder == IF context.article.kind # "absent" THEN context.article
                  ELSE IF context.page.kind # "absent"
                          /\ context.page.source_path.kind # "absent"
                  THEN context.page ELSE NoObject
    IN  IF holder.url.kind # "absent" /\ ~Truthy(first)
        THEN holder.url ELSE first

\* variant: the options are emitted as they were given
kicad_schematic_as_given(context, filename, style, controls, gs, fs) ==
    LET resolved_path ==
            resolve_schematic_path(filename, context_source_path(context),
                                   context_article_url(context), gs, fs).url
    IN  EMBED_OPEN \o SRC_ATTR \o resolved_path \o DQUOTE \o SPACE
        \o CONTROLS_ATTR \o controls \o DQUOTE \o SPACE
        \o STYLE_ATTR \o style \o DQUOTE \o EMBED_CLOSE

kicad_schematic(context, filename, style, controls, gs, fs) ==
    LET style1 == IF style = <<>> THEN DEFAULT_STYLE ELSE style
        controls1 == IF controls = <<>> THEN DEFAULT_CONTROLS ELSE controls
        resolved_path ==
            resolve_schematic_path(filename, context_source_path(context),
                                   context_article_url(context), gs, fs).url
    IN  EMBED_OPEN \o SRC_ATTR \o resolved_path \o DQUOTE \o SPACE
        \o CONTROLS_ATTR \o controls1 \o DQUOTE \o SPACE
        \o STYLE_ATTR \o style1 \o DQUOTE \o EMBED_CLOSE

---------------------------------------------------------------------------
(* One reference written in the three grammars *)

MARKDOWN_OPEN ==
    <<"{", "{", " ", "k", "i", "c", "a", "d", "_",
      "s", "c", "h", "e", "m", "a", "t", "i", "c", "(">>
MARKDOWN_CLOSE == <<")", " ", "}", "}">>
RST_MARKER ==
    <<".", ".", " ", "k", "i", "c", "a", "d", "-",
      "s", "c", "h", "e", "m", "a", "t", "i", "c", ":", ":", " ">>
RST_OPTION == <<"\n", " ", " ", " ", ":">>
LIQUID_CLOSE == <<" ", "%", "}">>
STYLE_UPPER == <<"S", "T", "Y", "L", "E">>
CONTROLS_UPPER == <<"C", "O", "N", "T", "R", "O", "L", "S">>

AMP == <<"a", "m", "p", ".", "k", "i", "c", "a", "d", "_", "s", "c", "h">>
SUB_B ==
    <<"s", "u", "b", "/", "b", "-", "2", ".",
      "k", "i", "c", "a", "d", "_", "s", "c", "h">>
MY_AMP ==
    <<"m", "y", " ", "a", "m", "p", ".",
      "k", "i", "c", "a", "d", "_", "s", "c", "h">>
WIDTH == <<"w", "i", "d", "t", "h", ":", " ", "1", "0", "0", "%", ";">>
FULL == <<"f", "u", "l", "l">>
\* a value that reads like the start of the other parameter
CONTROLS_EQ == CONTROLS \o EQUALS

Grammars == {"markdown", "rst", "liquid"}

\* a reference as the author has it in mind, and the way it is spelled:
\* the options in either order, either quote character, keys in either
\* case, an empty option left out or written with an empty value
References ==
    [ filename : {AMP, SUB_B, MY_AMP},
      style : {<<>>, WIDTH, CONTROLS_EQ},
      controls : {<<>>, FULL},
      spelling : {"plain", "controls_first", "single_quotes", "upper_keys"},
      empties : {"omitted", "written"} ]

Written(r, value) == value # <<>> \/ r.empties = "written"
QuoteOf(r) == IF r.spelling = "single_quotes" THEN <<"'">> ELSE DQUOTE
StyleKey(r) == IF r.spelling = "upper_keys" THEN STYLE_UPPER ELSE STYLE
ControlsKey(r) == IF r.spelling = "upper_keys" THEN CONTROLS_UPPER ELSE CONTROLS

\* key="value" with the reference's quote character
KeyValue(r, key, value) == key \o EQUALS \o QuoteOf(r) \o value \o QuoteOf(r)

\* {{ kicad_schematic("F", style="S", controls="C") }}: Grammar A has the
\* options in this order only
write_markdown(r) ==
    MARKDOWN_OPEN \o QuoteOf(r) \o r.filename \o QuoteOf(r)
    \o (IF Written(r, r.style)
        THEN COMMA \o SPACE \o KeyValue(r, StyleKey(r), r.style) ELSE <<>>)
    \o (IF Written(r, r.controls)
        THEN COMMA \o SPACE \o KeyValue(r, ControlsKey(r), r.controls) ELSE <<>>)
    \o MARKDOWN_CLOSE

\* the markup of {% kicad_schematic F style="S" controls="C" %}
liquid_markup(r) ==
    LET st == IF Written(r, r.style)
              THEN SPACE \o KeyValue(r, StyleKey(r), r.style) ELSE <<>>
        co == IF Written(r, r.controls)
              THEN SPACE \o KeyValue(r, ControlsKey(r), r.controls) ELSE <<>>
    IN  r.filename \o (IF r.spelling = "controls_first" THEN co \o st ELSE st \o co)

write_liquid(r) == LIQUID_OPENER \o liquid_markup(r) \o LIQUID_CLOSE

\* .. kicad-schematic:: F, then one indented line per option
write_rst(r) ==
    LET st == IF Written(r, r.style)
              THEN RST_OPTION \o STYLE \o <<":", " ">> \o r.style ELSE <<>>
        co == IF Written(r, r.controls)
              THEN RST_OPTION \o CONTROLS \o <<":", " ">> \o r.controls ELSE <<>>
    IN  RST_MARKER \o r.filename
        \o (IF r.spelling = "controls_first" THEN co \o st ELSE st \o co)

\* what docutils hands to the directive: the options that were written,
\* each converted by directives.unchanged
rst_options(r) ==
    [ style |-> IF Written(r, r.style) THEN Str(r.style) ELSE Absent,
      controls |-> IF Written(r, r.controls) THEN Str(r.controls) ELSE Absent ]

write(r) ==
    [g \in Grammars |->
        IF g = "markdown" THEN write_markdown(r)
        ELSE IF g = "rst" THEN write_rst(r)
        ELSE write_liquid(r)]

\* the Content object of a source text
NewContent(text) ==
    [ _content |-> Str(text), kicanvas_embed |-> "absent",
      _kicanvas_script_injected |-> "absent", status |-> "published",
      extra_js |-> NoExtraJs ]

Returned(name, value) ==
    /\ name \notin DOMAIN output
    /\ output' = output @@ (name :> value)

\* the Markdown parser calls the preprocessor with the lines of the text
render_markdown ==
    /\ Returned("markdown", run(<<docs["markdown"]._content.text>>))
    /\ UNCHANGED <<docs, settings, _pelican_settings, last, source, files>>

\* docutils calls the directive with its one argument, a filename without
\* whitespace (required_arguments = 1, final_argument_whitespace = False)
render_rst ==
    /\ \A k \in 1..Len(source.filename) : ~IsSpace(source.filename[k])
    /\ Returned("rst",
                KiCadSchematicDirective_run(<<source.filename>>, rst_options(source)))
    /\ UNCHANGED <<docs, settings, _pelican_settings, last, source, files>>

\* liquid_tags calls the handler registered for the tag with the markup
render_liquid ==
    /\ Returned("liquid", kicad_schematic_tag(liquid_markup(source)))
    /\ UNCHANGED <<docs, settings, _pelican_settings, last, source, files>>

\* the context of a template rendered outside any document, and the one
\* of an article template
POSTS_DOC_URL == <<"p", "o", "s", "t", "s", "/", "d", "o", "c", "/">>
POSTS_DOC_MD ==
    <<"/", "s", "i", "t", "e", "/", "c", "o", "n", "t", "e", "n", "t", "/",
      "p", "o", "s", "t", "s", "/", "d", "o", "c", ".", "m", "d">>
EmptyContext ==
    [__source_path__ |-> Absent, __article_url__ |-> Absent,
     article |-> NoObject, page |-> NoObject]
Contexts ==
    { EmptyContext,
      [EmptyContext EXCEPT
          !.article = Object(Str(POSTS_DOC_MD), Str(POSTS_DOC_URL))] }

\* a template calls kicad_schematic(filename, style, controls); Jinja2
\* passes the context
render_template ==
    /\ \E context \in Contexts :
          Returned("template",
                   kicad_schematic(context, source.filename, source.style,
                                   source.controls, _pelican_settings, files))
    /\ UNCHANGED <<docs, settings, _pelican_settings, last, source, files>>

InitRender ==
    /\ source \in References
    /\ docs = [g \in Grammars |-> NewContent(write(source)[g])]
    /\ settings \in {s \in PelicanSettings : s.KICANVAS_USE_CDN = "unset"}
    /\ _pelican_settings = NoSettings
    /\ last = NoCall("init")
    /\ output = <<>>
    /\ files = {}
NextRender ==
    \/ render_markdown
    \/ render_rst
    \/ render_liquid
    \/ render_template
    \/ \E g \in DOMAIN docs : content_object_init(g)
SpecRender == InitRender /\ [][NextRender]_vars

---------------------------------------------------------------------------
(* The renderers: C11 .. *)

\* the markup a renderer returned for the reference written in grammar g
Html(g) ==
    IF g = "markdown" THEN output[g][1]
    ELSE IF g = "rst" THEN output[g][1].text
    ELSE output[g]

\* the renderer of grammar g has returned an embed element
RendersElement(g) == g \in DOMAIN output /\ In(EMBED_OPEN, Html(g))

---------------------------------------------------------------------------
(* The detection hook and extra_js *)

\* the loader URL the tests look for in content.extra_js
UNPKG_URL ==
    <<"h", "t", "t", "p", "s", ":", "/", "/", "u", "n", "p", "k", "g", ".",
      "c", "o", "m", "/", "k", "i", "c", "a", "n", "v", "a", "s", "@", "l",
      "a", "t", "e", "s", "t", "/", "d", "i", "s", "t", "/", "k", "i", "c",
      "a", "n", "v", "a", "s", ".", "j", "s">>

OTHER_JS ==
    <<"h", "t", "t", "p", "s", ":", "/", "/", "e", "x", "a", "m", "p", "l",
      "e", ".", "c", "o", "m", "/", "o", "t", "h", "e", "r", ".", "j", "s">>

\* the extra_js a document can bring along
ExtraJsValues ==
    { NoExtraJs, ExtraJsList(<<>>), ExtraJsList(<<OTHER_JS>>),
      ExtraJsList(<<OTHER_JS, UNPKG_URL>>), ExtraJsStr(OTHER_JS) }

\* source texts of one segment, on documents with every extra_js
InitExtraJs ==
    /\ docs \in [{1} -> {[c EXCEPT !.extra_js = e] :
                            c \in NewContents(Concats(PatternSegments, 1),
                                              {"absent"}, Statuses),
                            e \in ExtraJsValues}]
    /\ settings \in {s \in PelicanSettings : s.KICANVAS_USE_CDN = "unset"}
    /\ _pelican_settings = NoSettings
    /\ last = NoCall("init")
    /\ source = <<>>
    /\ output = <<>>
    /\ files = {}
NextExtraJs == \E d \in DOMAIN docs : content_object_init(d)
SpecExtraJs == InitExtraJs /\ [][NextExtraJs]_vars

\* the entries of an extra_js value, as a list
Entries(extra_js) == extra_js.items

Occurrences(x, list) == Cardinality({k \in 1..Len(list) : list[k] = x})

\* C12: after the detection hook has returned for a document whose text
\* holds embed syntax, the document's extra_js is a list that holds the
\* loader URL exactly once and every entry that extra_js held before (the
\* value itself when it was a string), in the same number.
C12_ExtraJsHoldsLoaderOnce ==
    \A d \in DOMAIN docs :
        DetectorReturned(d) /\ Was(d)._content.kind = "str"
                            /\ HasOpener(Text(Was(d))) =>
            /\ docs[d].extra_js.kind = "list"
            /\ Occurrences(UNPKG_URL, Entries(docs[d].extra_js)) = 1
            /\ \A x \in {OTHER_JS} :
                   Occurrences(x, Entries(docs[d].extra_js))
                       = Occurrences(x, Entries(Was(d).extra_js))

---------------------------------------------------------------------------
(* Markdown source lines *)

\* greatest number of items (expressions, fragments of expressions, plain
\* text) the lines of a Markdown source are made of
MaxItems == 3

COMPACT_OPEN ==
    <<"{", "{", "k", "i", "c", "a", "d", "_",
      "s", "c", "h", "e", "m", "a", "t", "i", "c", "(">>
COMPACT_CLOSE == <<")", "}", "}">>
MISSPELLED_OPEN ==
    <<"{", "{", " ", "k", "i", "c", "a", "d", "_",
      "s", "c", "h", "e", "m", "t", "i", "c", "(">>
AND == <<" ", "a", "n", "d", " ">>

Plain(filename) ==
    [filename |-> filename, style |-> <<>>, controls |-> <<>>,
     spelling |-> "plain", empties |-> "omitted"]

\* {{kicad_schematic(F)}}: a bare filename and no blank anywhere
write_markdown_compact(r) == COMPACT_OPEN \o r.filename \o COMPACT_CLOSE

\* what a line is made of: complete expressions with the reference they
\* stand for, expressions with a part missing or misspelled, plain text
MarkdownItems ==
    { [kind |-> "expression", text |-> write_markdown(Plain(AMP)),
       ref |-> Plain(AMP)],
      [kind |-> "expression",
       text |-> write_markdown([Plain(MY_AMP) EXCEPT !.style = WIDTH,
                                   !.controls = FULL, !.spelling = "single_quotes"]),
       ref |-> [Plain(MY_AMP) EXCEPT !.style = WIDTH, !.controls = FULL]],
      [kind |-> "expression", text |-> write_markdown_compact(Plain(SUB_B)),
       ref |-> Plain(SUB_B)],
      [kind |-> "malformed",
       text |-> MARKDOWN_OPEN \o DQUOTE \o AMP \o DQUOTE, ref |-> Plain(AMP)],
      [kind |-> "malformed",
       text |-> MARKDOWN_OPEN \o DQUOTE \o AMP \o DQUOTE \o RPAREN,
       ref |-> Plain(AMP)],
      [kind |-> "malformed",
       text |-> MISSPELLED_OPEN \o DQUOTE \o AMP \o DQUOTE \o MARKDOWN_CLOSE,
       ref |-> Plain(AMP)],
      [kind |-> "malformed", text |-> MARKDOWN_CLOSE, ref |-> Plain(<<>>)],
      [kind |-> "plain", text |-> AND, ref |-> Plain(<<>>)] }

\* the sources of at most n items: each item goes behind the last one on
\* the last line, or a new line is begun
RECURSIVE MarkdownSources(_)
MarkdownSources(n) ==
    IF n = 0 THEN { << <<>> >> }
    ELSE LET shorter == MarkdownSources(n - 1)
         IN  shorter
             \cup {[s EXCEPT ![Len(s)] = Append(@, item)] :
                      s \in shorter, item \in MarkdownItems}
             \cup {Append(s, <<>>) : s \in shorter}

\* the text of a line of items
RECURSIVE LineText(_)
LineText(items) ==
    IF items = <<>> THEN <<>> ELSE items[1].text \o LineText(Tail(items))

\* the lines the Markdown parser hands to the preprocessors
Lines(src) == [k \in 1..Len(src) |-> LineText(src[k])]

preprocess ==
    /\ Returned("run", run(Lines(source)))
    /\ UNCHANGED <<docs, settings, _pelican_settings, last, source, files>>

InitMarkdown ==
    /\ source \in MarkdownSources(MaxItems)
    /\ docs = <<>>
    /\ settings \in {s \in PelicanSettings : s.KICANVAS_USE_CDN = "unset"}
    /\ _pelican_settings = NoSettings
    /\ last = NoCall("init")
    /\ output = <<>>
    /\ files = {}
NextMarkdown == preprocess
SpecMarkdown == InitMarkdown /\ [][NextMarkdown]_vars

---------------------------------------------------------------------------
(* The Grammar A preprocessor: C13, C14 *)

\* the preprocessor has returned
Preprocessed == "run" \in DOMAIN output

\* t holds no complete expression: no opener is followed by a ')' that is
\* itself followed by '}}'
NoCompleteExpression(t) ==
    ~ \E i \in Positions(t) :
          /\ MarkdownOpenerAt(t, i)
          /\ \E j \in (i + 1)..(Len(t) - 1) :
                /\ t[j + 1] = ")"
                /\ \E k \in (j + 1)..(Len(t) - 1) : StartsAt(t, RBRACES, k)

\* C13: the preprocessor returns every line that holds no complete
\* Grammar A expression (the closing parenthesis or the closing braces are
\* missing, or the call token is misspelled) exactly as it was given.
C13_IncompleteLineUnchanged ==
    Preprocessed =>
        \A k \in 1..Len(source) :
            NoCompleteExpression(Lines(source)[k]) =>
                output["run"][k] = Lines(source)[k]

\* a line with an opener but no complete expression came back unchanged,
\* next to a line in which an expression was substituted
C13_Witness ==
    /\ Preprocessed
    /\ \E k \in 1..Len(source) :
          /\ \E i \in Positions(Lines(source)[k]) :
                MarkdownOpenerAt(Lines(source)[k], i)
          /\ NoCompleteExpression(Lines(source)[k])
          /\ output["run"][k] = Lines(source)[k]
    /\ \E k \in 1..Len(source) : output["run"][k] # Lines(source)[k]

\* the element of a reference: src, then controls and style when they are
\* not empty
Attribute(name, value) == SPACE \o name \o EQUALS \o DQUOTE \o value \o DQUOTE
SRC == <<"s", "r", "c">>
STATIC_SCHEMATICS ==
    <<"/", "s", "t", "a", "t", "i", "c", "/",
      "s", "c", "h", "e", "m", "a", "t", "i", "c", "s", "/">>
KICANVAS_EMBED ==
    <<"k", "i", "c", "a", "n", "v", "a", "s", "-", "e", "m", "b", "e", "d">>
Element(src, style, controls) ==
    <<"<">> \o KICANVAS_EMBED
    \o Attribute(SRC, src)
    \o (IF controls # <<>> THEN Attribute(CONTROLS, controls) ELSE <<>>)
    \o (IF style # <<>> THEN Attribute(STYLE, style) ELSE <<>>)
    \o <<">", "<", "/">> \o KICANVAS_EMBED \o <<">">>

\* the value of attribute key in an element, Absent when it has none
AttributeValue(html, key) ==
    LET open == SPACE \o key \o EQUALS \o DQUOTE
        p == Find(html, open, 0)
        a == p + Len(open)
        q == Find(html, DQUOTE, a)
    IN  IF p = -1 \/ q = -1 THEN Absent ELSE Str(Slice(html, a, q))

\* the attribute value, empty when the element has no such attribute
ValueOrEmpty(html, key) ==
    group_or_empty(AttributeValue(html, key))

ElementOf(r) == Element(STATIC_SCHEMATICS \o r.filename, r.style, r.controls)

\* a line of expressions and plain text, each expression replaced by the
\* element of its own reference
RECURSIVE Replaced(_)
Replaced(items) ==
    IF items = <<>> THEN <<>>
    ELSE (IF items[1].kind = "expression"
          THEN ElementOf(items[1].ref) ELSE items[1].text)
         \o Replaced(Tail(items))

\* C14: the preprocessor returns one line per line it was given, in the
\* same order, and on a line made of complete expressions and plain text
\* every expression is replaced by the element of its own filename while
\* the text around the expressions stays as it was.
C14_EachExpressionReplaced ==
    Preprocessed =>
        /\ Len(output["run"]) = Len(source)
        /\ \A k \in 1..Len(source) :
              (\A n \in 1..Len(source[k]) :
                   source[k][n].kind \in {"expression", "plain"}) =>
                  output["run"][k] = Replaced(source[k])

---------------------------------------------------------------------------
(* The elements of the renderers: C15 .. *)

\* the first run of non-blank characters of t
FirstToken(t) ==
    LET starts == {i \in Positions(t) : ~IsSpace(t[i + 1])}
        a == CHOOSE i \in starts : \A j \in starts : i <= j
        stops == {i \in a..(Len(t) - 1) : IsSpace(t[i + 1])}
        b == IF stops = {} THEN Len(t)
             ELSE CHOOSE i \in stops : \A j \in stops : i <= j
    IN  IF starts = {} THEN <<>> ELSE Slice(t, a, b)

\* the filename a grammar can carry: Grammar C has a filename token, the
\* other two the filename as written
FilenameIn(g, r) == IF g = "liquid" THEN FirstToken(r.filename) ELSE r.filename

\* C15: the element a textual renderer returns is '<kicanvas-embed', then
\* src="/static/schematics/<filename>", then controls="..." only when the
\* controls value is not empty, then style="..." only when the style
\* value is not empty, in this order and with nothing else; Grammar A and
\* Grammar B emit the values the author wrote; in the three grammars a
\* reference whose options are all left out or written with an empty
\* value gives an element with neither attribute.
C15_ElementAttributes ==
    \A g \in Grammars :
        g \in DOMAIN output =>
            /\ Html(g) = Element(STATIC_SCHEMATICS \o FilenameIn(g, source),
                                 ValueOrEmpty(Html(g), STYLE),
                                 ValueOrEmpty(Html(g), CONTROLS))
            /\ g # "liquid" =>
                  /\ ValueOrEmpty(Html(g), STYLE) = source.style
                  /\ ValueOrEmpty(Html(g), CONTROLS) = source.controls
            /\ source.style = <<>> /\ source.controls = <<>> =>
                  Html(g) = Element(STATIC_SCHEMATICS \o FilenameIn(g, source),
                                    <<>>, <<>>)

\* the three renderers have returned for a reference whose style is
\* written with an empty value: controls is there, style is not
C15_Witness ==
    /\ \A g \in Grammars : g \in DOMAIN output
    /\ source.empties = "written" /\ source.style = <<>>
    /\ source.controls = FULL
    /\ \A g \in Grammars :
          /\ In(CONTROLS_ATTR \o FULL \o DQUOTE, Html(g))
          /\ ~In(STYLE_ATTR, Html(g))

\* what the template function puts in place of an empty option
StyleOrDefault(style) == IF style = <<>> THEN DEFAULT_STYLE ELSE style
ControlsOrDefault(controls) ==
    IF controls = <<>> THEN DEFAULT_CONTROLS ELSE controls

\* C16: the element of the template function always has both attributes,
\* controls="..." then style="...": an empty style is replaced by
\* 'width: 100%; height: 600px;', an empty controls by 'all', any other
\* value is emitted as given; the Grammar A text of the same reference
\* with both options empty gives an element with neither attribute.
C16_TemplateDefaults ==
    /\ "template" \in DOMAIN output =>
          output["template"] =
              Element(source.filename, StyleOrDefault(source.style),
                      ControlsOrDefault(source.controls))
    /\ "markdown" \in DOMAIN output
          /\ source.style = <<>> /\ source.controls = <<>> =>
          Html("markdown") =
              Element(STATIC_SCHEMATICS \o source.filename, <<>>, <<>>)

\* both have rendered a reference whose options are written with empty
\* values: the template's element has the two defaults, the Grammar A
\* element has no option
C16_Witness ==
    /\ {"template", "markdown"} \subseteq DOMAIN output
    /\ source.style = <<>> /\ source.controls = <<>>
    /\ source.empties = "written"
    /\ In(STYLE_ATTR \o DEFAULT_STYLE \o DQUOTE, output["template"])
    /\ In(CONTROLS_ATTR \o DEFAULT_CONTROLS \o DQUOTE, output["template"])
    /\ ~In(STYLE_ATTR, Html("markdown"))
    /\ ~In(CONTROLS_ATTR, Html("markdown"))

---------------------------------------------------------------------------
(* Agreement of the grammars *)

\* the elements of two grammars have the same src, style and controls
Agree(g, h) ==
    \A key \in {SRC, STYLE, CONTROLS} :
        AttributeValue(Html(g), key) = AttributeValue(Html(h), key)

HasWhitespace(t) == \E k \in 1..Len(t) : IsSpace(t[k])

\* C17: for every triple that can be written in the three grammars (its
\* filename has no whitespace, so that it is the one argument of the
\* Grammar B directive and the one filename token of the Grammar C tag),
\* the elements rendered from the triple written in Grammar A, in
\* Grammar B and in Grammar C agree on the values of src, style and
\* controls.
C17_TriplesAgree ==
    ~HasWhitespace(source.filename) =>
        \A g, h \in Grammars :
            {g, h} \subseteq DOMAIN output => Agree(g, h)


---------------------------------------------------------------------------
(* The Grammar C tag on any markup *)

MaxParts == 3

FILE == <<"f", "i", "l", "e", ".", "k", "i", "c", "a", "d", "_", "s", "c", "h">>
STYLE_UNTERMINATED ==
    <<"s", "t", "y", "l", "e", "=", "\"",
      "w", "i", "d", "t", "h", ":", " ", "8", "0", "0", "p", "x", ";">>
CONTROLS_FULL ==
    <<"c", "o", "n", "t", "r", "o", "l", "s", "=", "'", "f", "u", "l", "l", "'">>

\* what a tag may hold between its name and "%}": blanks, a filename,
\* parameters, a parameter whose closing quote is missing, a quote
MarkupParts == {SPACE, FILE, STYLE_UNTERMINATED, CONTROLS_FULL, DQUOTE}

Markups == Concats(MarkupParts, MaxParts)

\* liquid_tags calls the handler registered for the tag with the markup
render_tag ==
    /\ Returned("liquid", kicad_schematic_tag(source))
    /\ UNCHANGED <<docs, settings, _pelican_settings, last, source, files>>

InitLiquid ==
    /\ source \in Markups
    /\ docs = <<>>
    /\ settings \in {s \in PelicanSettings : s.KICANVAS_USE_CDN = "unset"}
    /\ _pelican_settings = NoSettings
    /\ last = NoCall("init")
    /\ output = <<>>
    /\ files = {}
NextLiquid == render_tag
SpecLiquid == InitLiquid /\ [][NextLiquid]_vars

INVALID == <<"I", "n", "v", "a", "l", "i", "d">>
COMMENT_OPEN == <<"<", "!", "-", "-">>
COMMENT_CLOSE == <<"-", "-", ">">>

\* the markup has no filename token: it is empty or all blanks
NoFilenameToken(markup) == \A k \in 1..Len(markup) : IsSpace(markup[k])

\* a style parameter is opened by a quote that is never closed
UnterminatedStyle(markup) ==
    LET p == Find(markup, STYLE_UNTERMINATED, 0)
    IN  /\ p # -1
        /\ \A k \in (p + Len(STYLE_UNTERMINATED) + 1)..Len(markup) :
              ~IsQuote(markup[k])

Plainly(r) == [r EXCEPT !.spelling = "plain"]

\* C19: the element the tag handler returns for a reference does not
\* depend on the spelling of its parameters: controls before style,
\* single quotes for double ones, STYLE and CONTROLS for style and
\* controls all give the element of 'F style="S" controls="C"'.
C19_SpellingIndependent ==
    "liquid" \in DOMAIN output =>
        output["liquid"] = kicad_schematic_tag(liquid_markup(Plainly(source)))

---------------------------------------------------------------------------
(* The resolver on a filesystem *)

ABS_AMP ==
    <<"/", "a", "b", "s", "/",
      "a", "m", "p", ".", "k", "i", "c", "a", "d", "_", "s", "c", "h">>
HTTP_AMP ==
    <<"h", "t", "t", "p", ":", "/", "/", "h", "/",
      "a", "m", "p", ".", "k", "i", "c", "a", "d", "_", "s", "c", "h">>
HTTPD == <<"h", "t", "t", "p", "d", ".", "k", "i", "c", "a", "d", "_", "s", "c", "h">>
FTP_AMP ==
    <<"f", "t", "p", ":", "/", "/", "h", "/",
      "a", "m", "p", ".", "k", "i", "c", "a", "d", "_", "s", "c", "h">>
UP_AMP ==
    <<".", ".", "/", "a", "m", "p", ".", "k", "i", "c", "a", "d", "_", "s", "c", "h">>
ELSEWHERE_DOC_MD ==
    <<"/", "s", "i", "t", "e", "/", "e", "l", "s", "e", "w", "h", "e", "r", "e", "/",
      "d", "o", "c", ".", "m", "d">>
SCHEMATICS == <<"s", "c", "h", "e", "m", "a", "t", "i", "c", "s">>

OUTPUT_POSTS_DOC ==
    <<"/", "s", "i", "t", "e", "/", "o", "u", "t", "p", "u", "t", "/",
      "p", "o", "s", "t", "s", "/", "d", "o", "c", "/">>
CONTENT_ROOT == <<"/", "s", "i", "t", "e", "/", "c", "o", "n", "t", "e", "n", "t", "/">>
CONTENT_POSTS == CONTENT_ROOT \o <<"p", "o", "s", "t", "s", "/">>
CONTENT_SCHEMATICS == CONTENT_ROOT \o SCHEMATICS \o SLASH
ELSEWHERE ==
    <<"/", "s", "i", "t", "e", "/", "e", "l", "s", "e", "w", "h", "e", "r", "e", "/">>

\* a file of the filesystem, by its absolute name
File(name) == FromRoot(Path(name))

\* the files a build may have: the schematic in the output directory of
\* the document, next to the document, in the schematics directory, in
\* the content root, outside the content root
SchematicFiles ==
    { File(OUTPUT_POSTS_DOC \o AMP), File(CONTENT_POSTS \o AMP),
      File(CONTENT_SCHEMATICS \o AMP), File(CONTENT_POSTS \o HTTPD),
      File(OUTPUT_POSTS_DOC \o HTTPD),
      File(CONTENT_ROOT \o AMP), File(ELSEWHERE \o AMP) }

\* the arguments of a call of resolve_schematic_path
ResolveCalls ==
    [ filename : {AMP, ABS_AMP, HTTP_AMP, HTTPD, FTP_AMP, UP_AMP},
      content_source_path : {None, Str(POSTS_DOC_MD), Str(ELSEWHERE_DOC_MD)},
      article_url : {None, Str(POSTS_DOC_URL)} ]

\* settings with and without KICAD_SCHEMATICS_PATH
ResolveSettings ==
    [ isNone : {FALSE}, KICANVAS_USE_CDN : {"unset"},
      PATH : {Absent}, OUTPUT_PATH : {Absent},
      KICAD_SCHEMATICS_PATH : {Absent, Str(SCHEMATICS)} ]

\* a call of the resolver: what it returns is kept under name, the
\* settings it read at line 71 under read
resolve_as(call, name, read) ==
    /\ name \notin DOMAIN output
    /\ output' = output @@ (name :>
                    resolve_schematic_path(call.filename,
                                           call.content_source_path,
                                           call.article_url,
                                           _pelican_settings, files))
                         @@ (read :> _pelican_settings)
    /\ UNCHANGED <<docs, settings, _pelican_settings, last, source, files>>

\* a renderer or the template function asks for the URL of a schematic
resolve_call == resolve_as(source, "resolver", "resolver read")

\* variant: the second question leaves the document URL out
resolve_again_without_url ==
    /\ "resolver" \in DOMAIN output
    /\ resolve_as([source EXCEPT !.article_url = None], "again", "again read")

\* the same question is asked once more
resolve_again ==
    /\ "resolver" \in DOMAIN output
    /\ resolve_as(source, "again", "again read")

\* the question is asked for another document
resolve_other ==
    \E call \in ResolveCalls :
        /\ call.filename = source.filename
        /\ call.content_source_path # source.content_source_path
        /\ call.article_url = source.article_url
        /\ resolve_as(call, "other", "other read")

InitResolve ==
    /\ source \in ResolveCalls
    /\ files \in SUBSET SchematicFiles
    /\ docs = <<>>
    /\ settings \in ResolveSettings
    /\ _pelican_settings = NoSettings
    /\ last = NoCall("init")
    /\ output = <<>>
NextResolve ==
    \/ resolve_call
    \/ resolve_again
    \/ resolve_other
    \/ add_jinja2_globals
SpecResolve == InitResolve /\ [][NextResolve]_vars

SCHEME_MARKER == <<":", "/", "/">>

\* the filename starts with a URL scheme marker: a scheme name, then "://"
StartsWithScheme(filename) ==
    LET p == Find(filename, SCHEME_MARKER, 0)
    IN  /\ p > 0
        /\ \A k \in 1..p : \E n \in DOMAIN LOWERCASE : Lower(filename[k]) = LOWERCASE[n]

\* C20: resolve_schematic_path returns at its first return statement,
\* with the filename as it was given and without having asked for the
\* existence of any path, exactly when the filename starts with '/' or
\* with a URL scheme marker; for every other filename it goes on to the
\* probing strategies.
C20_AsIsExactly ==
    "resolver" \in DOMAIN output =>
        LET r == output["resolver"]
        IN  /\ r.by = "as-is" <=>
                  \/ StartsAt(source.filename, SLASH, 0)
                  \/ StartsWithScheme(source.filename)
            /\ r.by = "as-is" => r.url = source.filename /\ r.probed = {}

---------------------------------------------------------------------------
(* The strategies of the resolver: C21 to C24, C29 *)

SITE == <<"/", "s", "i", "t", "e", "/">>

\* the resolver has returned
Resolved == "resolver" \in DOMAIN output

\* the document URL without its trailing slashes
UrlPath(call) ==
    LET u == call.article_url.text
        kept == {k \in 1..Len(u) : u[k] # "/"}
    IN  IF kept = {} THEN <<>>
        ELSE SubSeq(u, 1, CHOOSE k \in kept : \A j \in kept : j <= k)

\* '/' + documentUrl + '/' + filename
DocumentUrlOf(call) == SLASH \o UrlPath(call) \o SLASH \o call.filename

\* the file outputRoot/documentUrl/filename
OutputFile(call) ==
    File(SITE \o OUTPUT \o SLASH \o UrlPath(call) \o SLASH \o call.filename)

\* the document URL and the document source path are both present
BothPresent(call) ==
    /\ call.article_url.kind = "str" /\ call.article_url.text # <<>>
    /\ call.content_source_path.kind = "str"
    /\ call.content_source_path.text # <<>>

\* the filename is one that the author has not marked as a URL of its own
RelativeFilename(filename) ==
    ~StartsAt(filename, SLASH, 0) /\ ~StartsWithScheme(filename)

\* C21: when the document URL and the document source path are both
\* present and the file outputRoot/documentUrl/filename exists, the
\* resolver returns '/' + documentUrl without its trailing slash + '/' +
\* filename, whatever other files of that name exist (next to the source
\* document, elsewhere under the content root, in the schematics
\* directory); stated for filenames that start neither with '/' nor with a
\* URL scheme marker.
C21_OutputCopyWins ==
    Resolved /\ BothPresent(source) /\ RelativeFilename(source.filename)
        /\ OutputFile(source) \in files =>
        output["resolver"].url = DocumentUrlOf(source)

\* the document source path is present
SourcePresent(call) ==
    call.content_source_path.kind = "str" /\ call.content_source_path.text # <<>>

\* parentDir(documentSourcePath)/filename
NextToSource(call) ==
    PathJoin(parent(Path(call.content_source_path.text)), Path(call.filename))

\* the path, links and ".." carried out, is not below the content root
OutsideContentRoot(p) ==
    LET at == resolve(p).parts
        root == CWD \o <<CONTENT>>
    IN  ~(Len(at) > Len(root) /\ SubSeq(at, 1, Len(root)) = root)

\* C22: when the file parentDir(documentSourcePath)/filename exists but
\* lies outside the content root, the resolver never answers from the
\* tree-relative strategy; a call that gets as far as that strategy ends in
\* the configured-schematics strategy ('/' + configured path + '/' +
\* filename, the file being there) or in the fallback (the filename
\* unchanged).
C22_OutsideContentRoot ==
    Resolved /\ SourcePresent(source) /\ exists(files, NextToSource(source))
        /\ OutsideContentRoot(NextToSource(source)) =>
        LET r == output["resolver"]
        IN  /\ r.by # "content"
            /\ r.by \notin {"as-is", "output", "source"} =>
                  \/ /\ r.by = "schematics"
                     /\ r.url = SLASH \o SCHEMATICS \o SLASH \o source.filename
                     /\ File(CONTENT_SCHEMATICS \o source.filename) \in files
                  \/ /\ r.by = "fallback"
                     /\ r.url = source.filename

C22_Witness ==
    /\ Resolved
    /\ source.filename = AMP
    /\ source.content_source_path = Str(ELSEWHERE_DOC_MD)
    /\ source.article_url = None
    /\ File(ELSEWHERE \o AMP) \in files
    /\ output["resolver"].by = "schematics"

\* the file a probed path designates is there
Present(p) == Normalized(<<>>, FromRoot(p)) \in files

\* C23: an absent file never ends the resolution: when none of the probed
\* files is there the resolver returns the filename unchanged, having gone
\* through every strategy that applies; without a document source path and
\* without a configured schematics path it probes nothing and returns the
\* filename unchanged; and an answer other than the filename itself is
\* given only for a file that is there.
C23_AbsentFilesFallBack ==
    Resolved =>
        LET r == output["resolver"]
        IN  /\ (\A p \in r.probed : ~Present(p)) =>
                  r.url = source.filename /\ r.by \in {"as-is", "fallback"}
            /\ ~SourcePresent(source) /\ r.probed = {} =>
                  r.url = source.filename
            /\ r.by \in {"output", "source", "content", "schematics"} =>
                  \E p \in r.probed : Present(p)

C23_Witness ==
    /\ Resolved
    /\ BothPresent(source)
    /\ source.filename = AMP
    /\ Cardinality(output["resolver"].probed) = 3
    /\ \A p \in output["resolver"].probed : ~Present(p)
    /\ output["resolver"].url = AMP

\* the resolver has answered the same question twice
ResolvedTwice == {"resolver", "again"} \subseteq DOMAIN output

C29_NoTreeRelativeWithUrl ==
    Resolved /\ BothPresent(source) =>
        LET r == output["resolver"]
        IN  /\ r.by # "content"
            /\ r.url \in { DocumentUrlOf(source),
                           SLASH \o SCHEMATICS \o SLASH \o source.filename,
                           source.filename }
            /\ r.by \in {"schematics", "fallback"} =>
                  /\ NextToSource(source) \in r.probed
                  /\ ~exists(files, NextToSource(source))

C29_Witness ==
    /\ Resolved
    /\ BothPresent(source)
    /\ source.content_source_path = Str(POSTS_DOC_MD)
    /\ source.filename = UP_AMP
    /\ File(CONTENT_ROOT \o AMP) \in files
    /\ File(CONTENT_POSTS \o AMP) \in files
    /\ output["resolver"].url = DocumentUrlOf(source)
    /\ output["resolver"].by = "source"

---------------------------------------------------------------------------
(* The context of the template function: C27 *)

PAGES_ABOUT_MD ==
    <<"/", "s", "i", "t", "e", "/", "c", "o", "n", "t", "e", "n", "t", "/",
      "p", "a", "g", "e", "s", "/", "a", "b", "o", "u", "t", ".", "m", "d">>
PAGES_ABOUT_URL ==
    <<"p", "a", "g", "e", "s", "/", "a", "b", "o", "u", "t", "/">>
CONTENT_PAGES == CONTENT_ROOT \o <<"p", "a", "g", "e", "s", "/">>
DRAFTS_DOC_URL == <<"d", "r", "a", "f", "t", "s", "/", "d", "o", "c", "/">>

\* the objects a context holds under 'article' and 'page': none, one with
\* both attributes, one without url, one without source_path
ObjectsOf(source_path, url) ==
    { NoObject, Object(Str(source_path), Str(url)),
      Object(Str(source_path), Absent), Object(Absent, Str(url)) }

\* the contexts a template is rendered with
TemplateContexts ==
    [ __source_path__ : {Absent, None, Str(ELSEWHERE_DOC_MD)},
      __article_url__ : {Absent, None, Str(DRAFTS_DOC_URL)},
      article : ObjectsOf(POSTS_DOC_MD, POSTS_DOC_URL),
      page : ObjectsOf(PAGES_ABOUT_MD, PAGES_ABOUT_URL) ]

ContextFiles ==
    { File(CONTENT_POSTS \o AMP), File(CONTENT_PAGES \o AMP),
      File(ELSEWHERE \o AMP) }

\* a template calls kicad_schematic('amp.kicad_sch') in the context source:
\* the markup it returns and the arguments of the call at line 310
template_call ==
    /\ "template" \notin DOMAIN output
    /\ output' = output
          @@ ("template" :>
                kicad_schematic(source, AMP, <<>>, <<>>, _pelican_settings,
                                files))
          @@ ("reached" :>
                [filename |-> AMP,
                 content_source_path |-> context_source_path(source),
                 article_url |-> context_article_url(source)])
    /\ UNCHANGED <<docs, settings, _pelican_settings, last, source, files>>

InitContext ==
    /\ source \in TemplateContexts
    /\ files \in SUBSET ContextFiles
    /\ docs = <<>>
    /\ settings \in ResolveSettings
    /\ _pelican_settings = NoSettings
    /\ last = NoCall("init")
    /\ output = <<>>
NextContext ==
    \/ template_call
    \/ add_jinja2_globals
SpecContext == InitContext /\ [][NextContext]_vars

\* the context entry or attribute carries a value
Carries(v) == v.kind = "str" /\ v.text # <<>>

\* the object the function looks at: 'article', or 'page' when the context
\* has no 'article' and the page has a source path
Consulted(context) ==
    IF context.article.kind = "object" THEN context.article
    ELSE IF context.page.kind = "object"
            /\ context.page.source_path.kind # "absent"
    THEN context.page ELSE NoObject

\* C27: the template function takes the source path and the URL from the
\* context keys '__source_path__' and '__article_url__' when they carry a
\* value, otherwise from the attributes of 'article', and, the context
\* having no 'article', from those of 'page'; when the keys or the object
\* provide a source path and a URL, both reach resolve_schematic_path, and
\* a file next to that source path is answered below that URL.
C27_ContextReachesResolver ==
    "reached" \in DOMAIN output =>
        LET r == output["reached"]
            o == Consulted(source)
        IN  /\ Carries(source.__source_path__) =>
                  r.content_source_path = source.__source_path__
            /\ Carries(source.__article_url__) =>
                  r.article_url = source.__article_url__
            /\ ~Carries(source.__source_path__) /\ Carries(o.source_path) =>
                  r.content_source_path = o.source_path
            /\ ~Carries(source.__article_url__) /\ Carries(o.url) =>
                  r.article_url = o.url
            /\ source.article.kind = "object" =>
                  /\ r.content_source_path # source.page.source_path
                  /\ r.article_url # source.page.url
            /\ ( \/ Carries(source.__source_path__)
                       /\ Carries(source.__article_url__)
                 \/ Carries(o.source_path) /\ Carries(o.url) ) =>
                  /\ BothPresent(r)
                  /\ exists(files, NextToSource(r)) =>
                        AttributeValue(output["template"], SRC)
                            = Str(DocumentUrlOf(r))

\* the page provides both, the keys are there without a value
C27_Witness ==
    /\ "reached" \in DOMAIN output
    /\ source.__source_path__ = None
    /\ source.__article_url__ = Absent
    /\ source.article = NoObject
    /\ source.page = Object(Str(PAGES_ABOUT_MD), Str(PAGES_ABOUT_URL))
    /\ File(CONTENT_PAGES \o AMP) \in files
    /\ output["reached"].content_source_path = Str(PAGES_ABOUT_MD)
    /\ AttributeValue(output["template"], SRC)
           = Str(SLASH \o PAGES_ABOUT_URL \o AMP)

---------------------------------------------------------------------------
(* The marker and the body: C26, C30 *)

\* C26: a document gets its marker (_kicanvas_script_injected) only in a
\* step in which the guard inserts the loader script tag into its body.
\* Stated for the documents whose body does not hold the loader URL yet.
C26_MarkerOnlyWithInsertion ==
    [][ \A d \in DOMAIN docs :
            ( /\ docs[d]._kicanvas_script_injected = "absent"
              /\ docs'[d]._kicanvas_script_injected = "True"
              /\ ~In(ConfiguredUrl, Text(docs[d])) ) =>
                /\ Truthy(docs'[d]._content)
                /\ Count(script_tag(ConfiguredUrl), Text(docs'[d])) = 1 ]_vars

\* C30: an early call of the guard does not prevent the injection: when
\* the guard is called for a flagged, published document whose body is
\* rendered (non-empty) and the document carries the marker of an earlier
\* call, the body holds the loader URL after the call.
C30_EarlyCallHarmless ==
    \A d \in DOMAIN docs :
        ( /\ last.op = "inject_kicanvas_script_into_html" /\ last.doc = d
          /\ Was(d).kicanvas_embed = "True" /\ Was(d).status = "published"
          /\ Was(d)._kicanvas_script_injected = "True"
          /\ Truthy(Was(d)._content) ) =>
            In(ConfiguredUrl, Text(docs[d]))

---------------------------------------------------------------------------
(* register_markdown_extension: C28 *)

MaxRegistrations == 3

\* an entry of the 'extensions' list: a name the site configured (a str,
\* equal to every str of the same text) or an extension object, which has
\* an identity
Named(name) == [class |-> name, id |-> 0]
KiCadSchematicExtension(id) == [class |-> "KiCadSchematicExtension", id |-> id]

\* settings["MARKDOWN"]: not set, or a dict whose 'extensions' is not set,
\* a single value, or a list
NoExtensions == [kind |-> "absent", items |-> <<>>]
MarkdownSettings ==
    { [kind |-> "absent", extensions |-> NoExtensions] }
    \cup [ kind : {"dict"},
           extensions :
               {NoExtensions}
               \cup [ kind : {"value"},
                      items : { <<Named("codehilite")>>, <<Named("toc")>> } ]
               \cup [ kind : {"list"},
                      items : { <<>>, <<Named("codehilite")>>,
                                <<Named("codehilite"), Named("toc")>> } ] ]

\* x in list: Python compares with ==, which for KiCadSchematicExtension,
\* a class without __eq__ (md_ext.py lines 70-83), is the identity
contains(list, x) == \E k \in DOMAIN list : list[k] = x

\* KiCadSchematicExtension(): a new object, distinct from every object
\* that is in the list
new_extension(list) ==
    LET ids == {list[k].id : k \in DOMAIN list} \cup {0}
    IN  KiCadSchematicExtension(1 + CHOOSE m \in ids : \A n \in ids : n <= m)

\* signals.initialized -> register_markdown_extension(pelican_object)
register_markdown_extension ==
    LET md_extensions ==
            IF settings.MARKDOWN.kind = "absent" THEN NoExtensions
            ELSE settings.MARKDOWN.extensions
        list == md_extensions.items
        ext_instance == new_extension(list)
    IN  /\ Cardinality({k \in DOMAIN list :
                           list[k].class = "KiCadSchematicExtension"})
               < MaxRegistrations
        /\ settings' =
              [settings EXCEPT !.MARKDOWN =
                  [kind |-> "dict",
                   extensions |->
                       [kind |-> "list",
                        items |-> IF ~contains(list, ext_instance)
                                  THEN Append(list, ext_instance)
                                  ELSE list]]]
        /\ last' = NoCall("register_markdown_extension")
        /\ UNCHANGED <<docs, _pelican_settings, source, output, files>>

InitRegister ==
    /\ settings \in
          { s @@ [MARKDOWN |-> m] : s \in PelicanSettings, m \in MarkdownSettings }
    /\ docs = <<>>
    /\ _pelican_settings = NoSettings
    /\ last = NoCall("init")
    /\ source = <<>>
    /\ output = <<>>
    /\ files = {}
NextRegister ==
    \/ register_markdown_extension
    \/ add_jinja2_globals
SpecRegister == InitRegister /\ [][NextRegister]_vars

\* the KiCadSchematicExtension objects in settings["MARKDOWN"]["extensions"]
Registered ==
    LET list == settings.MARKDOWN.extensions.items
    IN  {k \in DOMAIN list : list[k].class = "KiCadSchematicExtension"}

\* C28: after any number of calls of register_markdown_extension on the
\* same settings, the MARKDOWN 'extensions' value is a list that holds
\* exactly one KiCadSchematicExtension.
C28_ExactlyOneExtension ==
    last.op = "register_markdown_extension" =>
        /\ settings.MARKDOWN.extensions.kind = "list"
        /\ Cardinality(Registered) = 1

---------------------------------------------------------------------------
(* copy_kicad_schematics: C25 *)

DOT_KICAD_SCH ==
    <<".", "k", "i", "c", "a", "d", "_", "s", "c", "h">>
INDEX_HTML == <<"i", "n", "d", "e", "x", ".", "h", "t", "m", "l">>
DOC_HTML == <<"d", "o", "c", ".", "h", "t", "m", "l">>

\* the name matches the pattern "*.kicad_sch"
matches_kicad_sch(name) ==
    /\ Len(name) >= Len(DOT_KICAD_SCH)
    /\ SubSeq(name, Len(name) - Len(DOT_KICAD_SCH) + 1, Len(name)) = DOT_KICAD_SCH

\* source_dir.glob("*.kicad_sch"): the entries of the directory itself
glob_kicad_sch(fs, source_dir) ==
    { f \in fs : /\ Len(f) = Len(source_dir) + 1
                 /\ SubSeq(f, 1, Len(source_dir)) = source_dir
                 /\ matches_kicad_sch(f[Len(f)]) }

\* the files after the loop body of lines 492-506 has run for one article
copied_for(article, gs, fs) ==
    IF article.content_source_path.kind = "absent"
       \/ article.save_as.kind = "absent"
    THEN fs
    ELSE LET output_path == settings_get(gs, gs.OUTPUT_PATH, OUTPUT)
             source_dir ==
                 FromRoot(parent(Path(article.content_source_path.text)))
             article_output_dir ==
                 FromRoot(PathJoin(Path(output_path),
                                   parent(Path(article.save_as.text))))
         IN  fs \cup { Normalized(<<>>, Append(article_output_dir, f[Len(f)])) :
                         f \in glob_kicad_sch(fs, Normalized(<<>>, source_dir)) }

\* signals.article_writer_finalized -> copy_kicad_schematics, the
\* generator holding the article of source
copy_kicad_schematics ==
    /\ last.op # "copy_kicad_schematics"
    /\ files' = copied_for(source, settings, files)
    /\ last' = NoCall("copy_kicad_schematics")
    /\ UNCHANGED <<docs, settings, _pelican_settings, source, output>>

\* the article: where it is published (url) and written (save_as), with
\* clean URLs and with the file names Pelican uses by default
Articles ==
    { [article_url |-> Str(POSTS_DOC_URL),
       save_as |-> Str(Slice(POSTS_DOC_URL, 0, Len(POSTS_DOC_URL)) \o INDEX_HTML)],
      [article_url |-> Str(DOC_HTML), save_as |-> Str(DOC_HTML)],
      [article_url |-> Str(POSTS_DOC_URL), save_as |-> Absent] }

CopyCalls ==
    { [filename |-> f, content_source_path |-> Str(POSTS_DOC_MD),
       article_url |-> a.article_url, save_as |-> a.save_as] :
          f \in {AMP, UP_AMP}, a \in Articles }

CopyFiles ==
    { File(POSTS_DOC_MD), File(CONTENT_POSTS \o AMP), File(CONTENT_ROOT \o AMP),
      File(OUTPUT_POSTS_DOC \o AMP) }

InitCopy ==
    /\ source \in CopyCalls
    /\ files \in SUBSET CopyFiles
    /\ docs = <<>>
    /\ settings \in ResolveSettings
    /\ _pelican_settings = NoSettings
    /\ last = NoCall("init")
    /\ output = <<>>
NextCopy ==
    \/ resolve_call
    \/ copy_kicad_schematics
    \/ add_jinja2_globals
SpecCopy == InitCopy /\ [][NextCopy]_vars

\* the output location that the URL '/documentUrl/filename' designates
DesignatedByUrl(call) ==
    PathJoin(PathJoin(Path(OUTPUT), Path(UrlPath(call))), Path(call.filename))

\* C25: when the resolver has answered '/documentUrl/filename' for a file
\* that is next to the source document and not in the output tree, then,
\* once copy_kicad_schematics has run for the article, the file
\* outputRoot/documentUrl/filename is there; and every '*.kicad_sch' file
\* of the article's source directory is, under its name, in the article's
\* output directory.
C25_CopiedWhereUrlPoints ==
    ( /\ last.op = "copy_kicad_schematics"
      /\ source.save_as.kind = "str" ) =>
        /\ ( Resolved /\ output["resolver"].by = "source" ) =>
              exists(files, DesignatedByUrl(source))
        /\ \A f \in glob_kicad_sch(files, FromRoot(parent(Path(POSTS_DOC_MD)))) :
              FromRoot(PathJoin(Path(OUTPUT), parent(Path(source.save_as.text))))
                  \o <<f[Len(f)]>> \in files

=============================================================================
